---- MODULE Spec2Model ----
(***************************************************************************)
(* Model of the Moodel simulation of src/src/demo: the mood transition     *)
(* systems (mood.rs), the action state machine, flocking and boundary      *)
(* avoidance systems (ai.rs), run once per frame of the Update schedule.   *)
(*                                                                         *)
(* Units.  Time is counted in quarter seconds (every duration of the code  *)
(* is a multiple of 0.25 s).  Positions are whole world units.  Intent     *)
(* vectors are fixed-point, in millionths (Scale).  Attraction factors are *)
(* in tenths.  Distances are in hundredths of a unit where the code takes  *)
(* a square root.                                                          *)
(*                                                                         *)
(* What lies outside the systems.  The physics engine moves the Moodels    *)
(* and keeps their CollidingEntities; entities can be despawned.  These    *)
(* happen between frames (FrameMove, FrameDespawn, FrameContact).  In the  *)
(* runs of Spec a rage sequence is disturbed at most once, by one move or  *)
(* one despawn; in the runs of SpecMood the contacts change freely.        *)
(*                                                                         *)
(* Every Moodel is taken to carry the components the queries of the        *)
(* systems ask for (AiMagnetism, CollidingEntities).                       *)
(*                                                                         *)
(* The goal zones of level.rs (SpecZone): the chained systems              *)
(* handle_zone_collisions, update_zone_state, check_win_condition run once *)
(* per frame beside the mood systems.  The physics steps write the         *)
(* collision events of a frame before it (FrameNotify); leaving and        *)
(* entering Screen::Gameplay tears the level down and spawns it again      *)
(* (LevelRestart).  SpecCycle applies next_in_cycle on its own.            *)
(***************************************************************************)
EXTENDS Integers, Sequences, FiniteSets, TLC

VARIABLES
    now,           \* Time::elapsed, quarter seconds
    delta,         \* Time::delta of the current frame
    ran,           \* the systems that have run in the current frame
    live,          \* the entities that exist (Moodels)
    order,         \* table row order of the live Moodels: query iteration order
    pos,           \* Transform.translation of each Moodel
    colliding,     \* CollidingEntities.len() of each Moodel (physics engine)
    mood,          \* Mood component
    mood_entity,   \* MoodEntity component
    wander_state,  \* AiWanderState component
    intent,        \* MovementController.intent
    observed,      \* per Moodel: what the systems saw and did in this frame (history)
    disturbed,     \* the world outside the systems has acted on a rage sequence
    frame_times,   \* the frame times (Time::delta) the run draws from
    horizon,       \* the elapsed time at which the run is cut
    installed,     \* the systems the plugins have added to the Update schedule
    active_level,  \* ActiveLevel resource: the level data the entities are spawned from
    zones,         \* the GoalZone entities that exist
    goal_zone,     \* GoalZone component of each zone
    started,       \* CollisionStarted events not yet read by handle_zone_collisions
    ended,         \* CollisionEnded events not yet read by handle_zone_collisions
    level_won,     \* Local<bool> of check_win_condition
    noted,         \* the notifications emitted and the effects signalled (history)
    progressed,    \* per Moodel: a mood and the moods next_in_cycle gave from it
    sound_events,  \* PlaySound events written in the current frame
    ai_config,     \* AiConfig resource
    panicked,      \* a system has panicked: the App is gone
    max_speed      \* MovementController.max_speed, in thousandths of a unit per second

(* the resources and events of the App beside the level *)
appVars == <<sound_events, ai_config, panicked, max_speed>>

(* the state of the level's goal zones *)
levelVars == <<active_level, zones, goal_zone, started, ended, level_won, noted>>

vars == <<now, delta, ran, live, order, pos, colliding, mood, mood_entity,
          wander_state, intent, observed, disturbed, frame_times, horizon, installed,
          levelVars, progressed, appVars>>

----------------------------------------------------------------------------
(* Bounds of the model *)

NumAgents == 3

MaxTime == 22

MaxMoodTime == 33

MaxZoneTime == 6

MaxNotifications == 3

MaxInstances == 2

MaxProgressions == 6

MaxNeighbors == 8

MaxSceneTime == 2

MaxOpenTime == 4

MaxRearmTime == 38

CycleAgents == {1, 2}

Agents == 1..NumAgents

NoEntity == 0

(* Frame times, in quarter seconds *)
Deltas == {2}

MoodDeltas == {1, 2}

(* Places a Moodel can be at *)
Points == {<<-300, 0>>, <<-350, 1>>, <<-250, 0>>}

SpawnPositions == <<(<<-300, 0>>), (<<-350, 1>>), (<<-250, 0>>), (<<0, 0>>)>>

(* Raw fbm noise vectors (millionths) get_2d_noise can return *)
NoiseVecs == {<<600000, -800000>>}

CollisionCounts == {0, 2, 4, 6}

----------------------------------------------------------------------------
(* Program constants *)

Scale == 1000 * 1000

RageChargeAimDuration == 3

RageChargeDuration == 6

RageChargeCooldownMin == 20

RageChargeCooldownMax == 32

MoodCheckPeriod == 2

CycleProgressionPeriod == 32

StabilityGate == 12

StabilityThreshold == 6

CohesionStrengthPct == 5

SeparationStrengthPct == 1

AvoidanceMargin == 100

AvoidanceStrength == 2

PlayAreaWidth == 800

PlayAreaHeight == 600

VisionRadius == 150

SeparationDistance == 60

(* rng.random_range(0.5..1.5) and rng.random_range(3.0..6.0) at spawn *)
SpawnStateDurations == {2}

SpawnCooldownDurations == {12}

(* rng.random_range(3.0..6.0) of the Sad pause: the half-open range 12..23 *)
SadPauseDurations == {12, 23}

(* rng.random_range(config.rage_charge_cooldown): the half-open range *)
RageChargeCooldown == RageChargeCooldownMin..(RageChargeCooldownMax - 1)

(* the closed range sampled *)
CooldownSamplesClosed ==
    {ai_config.rage_charge_cooldown[1], ai_config.rage_charge_cooldown[2]}

(* the ends of the half-open range; random_range has nothing to sample in *)
(* an empty range                                                          *)
CooldownSamples ==
    IF ai_config.rage_charge_cooldown[1] < ai_config.rage_charge_cooldown[2]
    THEN {ai_config.rage_charge_cooldown[1], ai_config.rage_charge_cooldown[2] - 1}
    ELSE {}

(* PlaySound: the sound events of the App *)
CorrectZoneEntry == [kind |-> "CorrectZoneEntry"]

MoodChanged(from, to) == [kind |-> "MoodChanged", from |-> from, to |-> to]

(* the Moodels of a scene and the places where they stand: the edges (at   *)
(* -400, 400 and -300, 300), the avoidance margin, the corners and the     *)
(* middle of the play area                                                 *)
SceneAgents == {1, 2, 3}

ScenePoints ==
    {<<-350, 0>>, <<-300, 0>>, <<350, 250>>, <<-350, -250>>,
     <<0, 0>>, <<40, 0>>, <<0, 100>>, <<150, 0>>}

SceneAnchors == {<<0, 0>>, <<-300, 0>>, <<350, 250>>, <<30, 40>>}

(* the ability cooldown of a scene's first Moodel: just restarted, or one  *)
(* frame before it elapses                                                 *)
SceneCooldownsElapsed == {0, 10}

(* AiConfig resources: the cooldown range start..end as <<start, end>> *)
AiConfigs ==
    {[rage_charge_cooldown |-> c] :
        c \in {<<RageChargeCooldownMin, RageChargeCooldownMax>>,
               <<RageChargeCooldownMax, RageChargeCooldownMin>>,
               <<RageChargeCooldownMin, RageChargeCooldownMin>>}}

(* AiConfig::default: rage_charge_cooldown 5.0..8.0 *)
AiConfigDefault ==
    [rage_charge_cooldown |-> <<RageChargeCooldownMin, RageChargeCooldownMax>>]

Moods == {"Neutral", "Calm", "Happy", "Rage", "Sad"}

SpawnMoods == {"Rage", "Happy"}

MoodAssetsLoaded == TRUE

MoodSystems == {"mood_collisions", "mood_natural"}

AiSystems == {"ai_behavior", "ai_magnetism", "ai_boundary"}

Systems == MoodSystems \cup AiSystems

----------------------------------------------------------------------------
(* Vec2 arithmetic *)

Zero == <<0, 0>>

VAdd(u, v) == <<u[1] + v[1], u[2] + v[2]>>

VSub(u, v) == <<u[1] - v[1], u[2] - v[2]>>

VMul(u, k) == <<u[1] * k, u[2] * k>>

Div(a, b) == IF a >= 0 THEN a \div b ELSE -((-a) \div b)

VDiv(u, k) == <<Div(u[1], k), Div(u[2], k)>>

RECURSIVE ISqrtIn(_, _, _)
ISqrtIn(n, lo, hi) ==
    IF lo >= hi THEN lo
    ELSE LET mid == (lo + hi + 1) \div 2
         IN IF mid * mid <= n THEN ISqrtIn(n, mid, hi) ELSE ISqrtIn(n, lo, mid - 1)

ISqrt(n) == ISqrtIn(n, 0, 46340)

LengthSquared(v) == v[1] * v[1] + v[2] * v[2]

(* floor(100 * sqrt(n)) for n beyond the reach of 32-bit products: the     *)
(* whole root first, then its hundredths                                  *)
ISqrtCenti(n) ==
    LET r == ISqrt(n)
        rest == 10000 * (n - r * r)
    IN  100 * r + Cardinality({k \in 1..99 : 200 * r * k + k * k <= rest})

(* Vec distance in hundredths of a unit, for whole-unit vectors *)
DistanceCenti(p, q) ==
    LET n == LengthSquared(VSub(p, q))
    IN  IF n <= 200000 THEN ISqrt(10000 * n) ELSE ISqrtCenti(n)

(* normalize_or_zero / try_normalize of a whole-unit vector, in millionths *)
NormalizeOrZero(v) ==
    IF LengthSquared(v) = 0 THEN Zero
    ELSE LET len == DistanceCenti(v, Zero)
         IN <<Div(v[1] * 100000, len) * 1000, Div(v[2] * 100000, len) * 1000>>

(* normalize_or_zero of a noise vector given in millionths *)
NormalizeNoise(n) ==
    IF LengthSquared(VDiv(n, 1000)) = 0 THEN Zero
    ELSE LET len == ISqrt(LengthSquared(VDiv(n, 1000)))
         IN <<Div(n[1], len) * 1000, Div(n[2], len) * 1000>>

----------------------------------------------------------------------------
(* bevy Timer *)

TimerFromSeconds(d, mode) ==
    [elapsed |-> 0, duration |-> d, mode |-> mode, finished |-> FALSE, times |-> 0]

TimerTick(t, dt) ==
    IF t.mode = "Once" /\ t.finished
    THEN [t EXCEPT !.times = 0]
    ELSE LET e == t.elapsed + dt
         IN IF e >= t.duration
            THEN IF t.mode = "Repeating"
                 THEN [t EXCEPT !.elapsed = e % t.duration, !.finished = TRUE,
                                !.times = e \div t.duration]
                 ELSE [t EXCEPT !.elapsed = t.duration, !.finished = TRUE,
                                !.times = 1]
            ELSE [t EXCEPT !.elapsed = e, !.finished = FALSE, !.times = 0]

JustFinished(t) == t.times > 0

Finished(t) == t.finished

TimerRestart(t, d) ==
    [t EXCEPT !.duration = d, !.elapsed = 0, !.finished = FALSE, !.times = 0]

----------------------------------------------------------------------------
(* Mood model (mood.rs) *)

(* the cycle closed through Neutral *)
next_in_cycle_through_neutral(m) ==
    CASE m = "Neutral" -> "Happy"
      [] m = "Happy" -> "Calm"
      [] m = "Calm" -> "Sad"
      [] m = "Sad" -> "Rage"
      [] m = "Rage" -> "Neutral"

next_in_cycle(m) ==
    CASE m = "Neutral" -> "Happy"
      [] m = "Happy" -> "Calm"
      [] m = "Calm" -> "Sad"
      [] m = "Sad" -> "Rage"
      [] m = "Rage" -> "Happy"

(* the bands of the comments: Rage from 7 contacts on *)
collision_mood_of_groups(count) ==
    IF count = 0 THEN "Sad"
    ELSE IF count <= 2 THEN "Calm"
    ELSE IF count <= 6 THEN "Happy"
    ELSE "Rage"

(* a match whose first arm gives the mood of a fresh Moodel *)
collision_mood_resting(count) ==
    IF count = 0 THEN "Neutral"
    ELSE IF count <= 2 THEN "Calm"
    ELSE IF count <= 5 THEN "Happy"
    ELSE "Rage"

(* the match on collision_count *)
collision_mood(count) ==
    IF count = 0 THEN "Sad"
    ELSE IF count <= 2 THEN "Calm"
    ELSE IF count <= 5 THEN "Happy"
    ELSE "Rage"

(* the speed multiplier of a mood, in thousandths *)
speed_multiplier(m) ==
    CASE m = "Neutral" -> 750
      [] m = "Calm" -> 500
      [] m = "Happy" -> 1000
      [] m = "Rage" -> 1500
      [] m = "Sad" -> 375

(* the max_speed argument of the spawn of a level's Moodels *)
BaseSpeed == 350

(* a MovementController left at the default of its type *)
MovementControllerDefault(m) == [max_speed |-> 400000]

(* the MovementController of spawn_moodel_bundle *)
MovementControllerSpawned(m) == [max_speed |-> BaseSpeed * speed_multiplier(m)]

MoodEntityDefault ==
    [collision_count |-> 0,
     next_mood_check |-> TimerFromSeconds(MoodCheckPeriod, "Repeating"),
     next_cycle_progression |-> TimerFromSeconds(CycleProgressionPeriod, "Repeating"),
     mood_stability |-> 0]

(* first loop of update_mood_based_on_collisions for one Moodel *)
CheckedMoodEntity(a) ==
    [mood_entity[a] EXCEPT
        !.collision_count = colliding[a],
        !.next_mood_check = TimerTick(mood_entity[a].next_mood_check, delta)]

(* a conversion rule without the stability threshold *)
CollisionConversionAnyStability(a) ==
    LET me == CheckedMoodEntity(a)
    IN /\ JustFinished(me.next_mood_check)
       /\ me.mood_stability < StabilityGate
       /\ collision_mood(me.collision_count) # mood[a]

(* a conversion rule whose threshold gives way to a crowd *)
CollisionConversionOfCrowds(a) ==
    LET me == CheckedMoodEntity(a)
    IN /\ JustFinished(me.next_mood_check)
       /\ me.mood_stability < StabilityGate
       /\ collision_mood(me.collision_count) # mood[a]
       /\ \/ me.mood_stability < StabilityThreshold
          \/ collision_mood(me.collision_count) = "Rage"

(* whether the first loop pushes a conversion for the Moodel *)
CollisionConversion(a) ==
    LET me == CheckedMoodEntity(a)
    IN /\ JustFinished(me.next_mood_check)
       /\ me.mood_stability < StabilityGate
       /\ collision_mood(me.collision_count) # mood[a]
       /\ me.mood_stability < StabilityThreshold

update_mood_based_on_collisions ==
    /\ "mood_collisions" \notin ran
    /\ ran' = ran \cup {"mood_collisions"}
    /\ IF MoodAssetsLoaded
       THEN /\ mood' = [a \in Agents |->
                    IF a \in live /\ CollisionConversion(a)
                    THEN collision_mood(colliding[a]) ELSE mood[a]]
            /\ mood_entity' = [a \in Agents |->
                    IF a \notin live THEN mood_entity[a]
                    ELSE IF CollisionConversion(a)
                         THEN [CheckedMoodEntity(a) EXCEPT !.mood_stability = 0]
                         ELSE CheckedMoodEntity(a)]
            /\ observed' = [a \in Agents |->
                    IF a \notin live THEN observed[a]
                    ELSE [observed[a] EXCEPT
                             !.converted = CollisionConversion(a),
                             !.seen = mood_entity[a].mood_stability,
                             !.gap = IF CollisionConversion(a)
                                     THEN observed[a].since ELSE @,
                             !.since = IF CollisionConversion(a) THEN 0 ELSE @,
                             !.left = @ \/ mood'[a] # "Neutral"]]
       ELSE UNCHANGED <<mood, mood_entity, observed>>
    /\ UNCHANGED <<now, delta, live, order, pos, colliding, wander_state, intent,
                   disturbed, frame_times, horizon, installed,
                   levelVars, progressed, appVars>>

(* a cyclic rule that leaves mood_stability running *)
ProgressedMoodEntityKeepingStability(a) ==
    [mood_entity[a] EXCEPT
        !.next_cycle_progression =
            TimerTick(mood_entity[a].next_cycle_progression, delta),
        !.mood_stability = mood_entity[a].mood_stability + delta]

(* the loop body of update_mood_natural_progression for one Moodel *)
ProgressedMoodEntity(a) ==
    LET me == [mood_entity[a] EXCEPT
                  !.next_cycle_progression =
                      TimerTick(mood_entity[a].next_cycle_progression, delta),
                  !.mood_stability = mood_entity[a].mood_stability + delta]
    IN IF JustFinished(me.next_cycle_progression)
       THEN [me EXCEPT !.mood_stability = 0]
       ELSE me

ProgressedMood(a) ==
    IF JustFinished(TimerTick(mood_entity[a].next_cycle_progression, delta))
    THEN next_in_cycle(mood[a])
    ELSE mood[a]

update_mood_natural_progression ==
    /\ "mood_natural" \notin ran
    /\ ran' = ran \cup {"mood_natural"}
    /\ IF MoodAssetsLoaded
       THEN /\ mood' = [a \in Agents |->
                    IF a \in live THEN ProgressedMood(a) ELSE mood[a]]
            /\ mood_entity' = [a \in Agents |->
                    IF a \in live THEN ProgressedMoodEntity(a) ELSE mood_entity[a]]
            /\ observed' = [a \in Agents |->
                    IF a \notin live THEN observed[a]
                    ELSE [observed[a] EXCEPT
                             !.cycled = JustFinished(
                                 TimerTick(mood_entity[a].next_cycle_progression,
                                           delta)),
                             !.was = mood[a],
                             !.held = mood_entity[a].mood_stability + delta,
                             !.left = @ \/ mood'[a] # "Neutral"]]
       ELSE UNCHANGED <<mood, mood_entity, observed>>
    /\ UNCHANGED <<now, delta, live, order, pos, colliding, wander_state, intent,
                   disturbed, frame_times, horizon, installed,
                   levelVars, progressed, appVars>>

----------------------------------------------------------------------------
(* Action state machine (ai.rs) *)

Wandering == [kind |-> "Wandering", target |-> NoEntity, target_pos |-> Zero]

Aiming(t) == [kind |-> "Aiming", target |-> t, target_pos |-> Zero]

Charging(p) == [kind |-> "Charging", target |-> NoEntity, target_pos |-> p]

(* AiWanderState::new; noise_seed is left out, the noise being an input *)
AiWanderStateNew(sd, cd) ==
    [state_timer |-> TimerFromSeconds(sd, "Once"),
     action |-> Wandering,
     ability_cooldown |-> TimerFromSeconds(cd, "Once"),
     charge_hit_count |-> 0]

(* AiWanderState some seconds after spawn: the state timer has finished,   *)
(* the ability cooldown of 3 s has run for e quarter seconds               *)
SceneWanderState(e) ==
    [state_timer |-> [TimerFromSeconds(2, "Once") EXCEPT
                         !.elapsed = 2, !.finished = TRUE],
     action |-> Wandering,
     ability_cooldown |-> [TimerFromSeconds(12, "Once") EXCEPT !.elapsed = e],
     charge_hit_count |-> 0]

(* the min_by_key key: (distance * 100.0) as u32 *)
DistanceKey(a, t) == DistanceCenti(pos[a], pos[t])

(* target rows without the mood filter *)
TargetRowsOfAnyMood(a) ==
    {i \in 1..Len(order) : order[i] # a}

(* potential_targets filtered to exclude the Moodel itself: rows of `order` *)
TargetRows(a) ==
    {i \in 1..Len(order) : order[i] # a /\ mood[order[i]] # "Rage"}

(* min_by_key returns the first minimum in iteration order *)
closest_target(a) ==
    IF TargetRows(a) = {} THEN NoEntity
    ELSE order[CHOOSE i \in TargetRows(a) : \A j \in TargetRows(a) :
                   \/ DistanceKey(a, order[i]) < DistanceKey(a, order[j])
                   \/ /\ DistanceKey(a, order[i]) = DistanceKey(a, order[j])
                      /\ i <= j]

(* a Sad branch that starts a pause whenever the state timer is over *)
get_wander_intent_pausing_anew(m, ws) ==
    IF m = "Happy"
    THEN {[ws |-> ws, intent |-> VDiv(VMul(n, 3), 10)] : n \in NoiseVecs}
    ELSE IF m = "Rage"
    THEN {[ws |-> ws, intent |-> NormalizeNoise(n)] : n \in NoiseVecs}
    ELSE IF m = "Calm"
    THEN {[ws |-> ws, intent |-> VDiv(VMul(NormalizeNoise(n), 5), 10)] : n \in NoiseVecs}
    ELSE IF m = "Neutral"
    THEN {[ws |-> ws, intent |-> VDiv(VMul(NormalizeNoise(n), 6), 10)] : n \in NoiseVecs}
    ELSE IF ~Finished(ws.state_timer)
    THEN {[ws |-> ws, intent |-> VDiv(VMul(NormalizeNoise(n), 4), 10)] : n \in NoiseVecs}
    ELSE {[ws |-> [ws EXCEPT !.state_timer = TimerRestart(ws.state_timer, d)],
           intent |-> Zero] : d \in SadPauseDurations}

(* get_wander_intent: the set of results over the noise and the rng *)
get_wander_intent(m, ws) ==
    IF m = "Happy"
    THEN {[ws |-> ws, intent |-> VDiv(VMul(n, 3), 10)] : n \in NoiseVecs}
    ELSE IF m = "Rage"
    THEN {[ws |-> ws, intent |-> NormalizeNoise(n)] : n \in NoiseVecs}
    ELSE IF m = "Calm"
    THEN {[ws |-> ws, intent |-> VDiv(VMul(NormalizeNoise(n), 5), 10)] : n \in NoiseVecs}
    ELSE IF m = "Neutral"
    THEN {[ws |-> ws, intent |-> VDiv(VMul(NormalizeNoise(n), 6), 10)] : n \in NoiseVecs}
    ELSE IF ~Finished(ws.state_timer)
    THEN {[ws |-> ws, intent |-> VDiv(VMul(NormalizeNoise(n), 4), 10)] : n \in NoiseVecs}
    ELSE IF JustFinished(ws.state_timer)
    THEN {[ws |-> [ws EXCEPT !.state_timer = TimerRestart(ws.state_timer, d)],
           intent |-> Zero] : d \in SadPauseDurations}
    ELSE {[ws |-> ws, intent |-> Zero]}

(* a Wandering arm that asks whether the cooldown is over *)
WanderingArmOnceCooled(a, ws) ==
    IF /\ mood[a] = "Rage"
       /\ Finished(ws.ability_cooldown)
       /\ closest_target(a) # NoEntity
    THEN {[ws |-> [ws EXCEPT
                      !.action = Aiming(closest_target(a)),
                      !.state_timer = TimerRestart(ws.state_timer, RageChargeAimDuration),
                      !.charge_hit_count = 0],
           intent |-> Zero]}
    ELSE get_wander_intent(mood[a], ws)

(* the AiAction::Wandering arm *)
WanderingArm(a, ws) ==
    IF /\ mood[a] = "Rage"
       /\ JustFinished(ws.ability_cooldown)
       /\ closest_target(a) # NoEntity
    THEN {[ws |-> [ws EXCEPT
                      !.action = Aiming(closest_target(a)),
                      !.state_timer = TimerRestart(ws.state_timer, RageChargeAimDuration),
                      !.charge_hit_count = 0],
           intent |-> Zero]}
    ELSE get_wander_intent(mood[a], ws)

(* an Aiming arm that charges at the last position of a removed target *)
AimingArmWithoutLookup(a, ws) ==
    IF JustFinished(ws.state_timer)
    THEN {[ws |-> [ws EXCEPT
                      !.action = Charging(pos[ws.action.target]),
                      !.state_timer = TimerRestart(ws.state_timer, RageChargeDuration)],
           intent |-> Zero]}
    ELSE {[ws |-> ws, intent |-> Zero]}

(* an Aiming arm that looks the target up on every tick *)
AimingArmEagerFallback(a, ws) ==
    IF ws.action.target \notin live
    THEN {[ws |-> [ws EXCEPT !.action = Wandering], intent |-> Zero]}
    ELSE IF JustFinished(ws.state_timer)
    THEN {[ws |-> [ws EXCEPT
                      !.action = Charging(pos[ws.action.target]),
                      !.state_timer = TimerRestart(ws.state_timer, RageChargeDuration)],
           intent |-> Zero]}
    ELSE {[ws |-> ws, intent |-> Zero]}

(* an Aiming arm that goes on aiming when the target is gone *)
AimingArmAwaitingTarget(a, ws) ==
    IF JustFinished(ws.state_timer) /\ ws.action.target \in live
    THEN {[ws |-> [ws EXCEPT
                      !.action = Charging(pos[ws.action.target]),
                      !.state_timer = TimerRestart(ws.state_timer, RageChargeDuration)],
           intent |-> Zero]}
    ELSE {[ws |-> ws, intent |-> Zero]}

(* the AiAction::Aiming arm; all_moodels.get(target) succeeds for a live Moodel *)
AimingArm(a, ws) ==
    IF JustFinished(ws.state_timer)
    THEN IF ws.action.target \in live
         THEN {[ws |-> [ws EXCEPT
                           !.action = Charging(pos[ws.action.target]),
                           !.state_timer = TimerRestart(ws.state_timer, RageChargeDuration)],
                intent |-> Zero]}
         ELSE {[ws |-> [ws EXCEPT !.action = Wandering], intent |-> Zero]}
    ELSE {[ws |-> ws, intent |-> Zero]}

(* a Charging arm that charges at half speed *)
ChargingArmHalfSpeed(a, ws) ==
    IF JustFinished(ws.state_timer)
    THEN {[ws |-> [ws EXCEPT
                      !.action = Wandering,
                      !.ability_cooldown = TimerRestart(ws.ability_cooldown, d)],
           intent |-> VDiv(NormalizeOrZero(VSub(ws.action.target_pos, pos[a])), 2)]
          : d \in CooldownSamples}
    ELSE {[ws |-> ws,
           intent |-> VDiv(NormalizeOrZero(VSub(ws.action.target_pos, pos[a])), 2)]}

(* the AiAction::Charging arm *)
ChargingArm(a, ws) ==
    IF JustFinished(ws.state_timer)
    THEN {[ws |-> [ws EXCEPT
                      !.action = Wandering,
                      !.ability_cooldown = TimerRestart(ws.ability_cooldown, d)],
           intent |-> NormalizeOrZero(VSub(ws.action.target_pos, pos[a]))]
          : d \in CooldownSamples}
    ELSE {[ws |-> ws, intent |-> NormalizeOrZero(VSub(ws.action.target_pos, pos[a]))]}

(* both timers ticked at the top of the loop body *)
TickedWanderState(a) ==
    [wander_state[a] EXCEPT
        !.state_timer = TimerTick(wander_state[a].state_timer, delta),
        !.ability_cooldown = TimerTick(wander_state[a].ability_cooldown, delta)]

(* the loop body of update_ai_behavior for one Moodel: its possible results *)
BehaviorOutcomes(a) ==
    LET ws == TickedWanderState(a)
    IN IF ws.action.kind = "Wandering" THEN WanderingArm(a, ws)
       ELSE IF ws.action.kind = "Aiming" THEN AimingArm(a, ws)
       ELSE ChargingArm(a, ws)

(* one result per Moodel of the set S *)
RECURSIVE OutcomesOf(_)
OutcomesOf(S) ==
    IF S = {} THEN {<<>>}
    ELSE LET a == CHOOSE x \in S : TRUE
         IN {(a :> o) @@ f : o \in BehaviorOutcomes(a), f \in OutcomesOf(S \ {a})}

update_ai_behavior ==
    /\ "ai_behavior" \notin ran
    /\ ran' = ran \cup {"ai_behavior"}
    /\ IF \E a \in live : BehaviorOutcomes(a) = {}
       THEN /\ panicked' = TRUE
            /\ UNCHANGED <<wander_state, intent, observed>>
       ELSE /\ panicked' = panicked
            /\ \E f \in OutcomesOf(live) :
                  /\ wander_state' = [a \in Agents |->
                         IF a \in live THEN f[a].ws ELSE wander_state[a]]
                  /\ intent' = [a \in Agents |->
                         IF a \in live THEN f[a].intent ELSE intent[a]]
                  /\ observed' = [a \in Agents |->
                         IF a \in live
                         THEN [observed[a] EXCEPT
                                  !.before = wander_state[a].action,
                                  !.mood = mood[a],
                                  !.eligible = {u \in live \ {a} : mood[u] # "Rage"},
                                  !.cooled =
                                      JustFinished(TickedWanderState(a).ability_cooldown),
                                  !.fired =
                                      JustFinished(TickedWanderState(a).state_timer),
                                  !.base = f[a].intent,
                                  !.expired = Finished(wander_state[a].state_timer),
                                  !.spent =
                                      IF wander_state[a].action.kind = "Wandering"
                                      THEN 0 ELSE @ + delta,
                                  !.aimings =
                                      IF /\ wander_state[a].action.kind = "Wandering"
                                         /\ f[a].ws.action.kind = "Aiming"
                                      THEN @ + 1 ELSE @,
                                  !.charges =
                                      IF /\ wander_state[a].action.kind = "Charging"
                                         /\ f[a].ws.action.kind = "Wandering"
                                      THEN @ + 1 ELSE @,
                                  !.barred =
                                      \/ @
                                      \/ /\ wander_state[a].action.kind = "Wandering"
                                         /\ JustFinished(
                                                TickedWanderState(a).ability_cooldown)
                                         /\ f[a].ws.action.kind = "Wandering"
                                      \/ /\ wander_state[a].action.kind = "Aiming"
                                         /\ f[a].ws.action.kind = "Wandering"]
                         ELSE observed[a]]
    /\ UNCHANGED <<now, delta, live, order, pos, colliding, mood, mood_entity,
                   disturbed, frame_times, horizon, installed,
                   levelVars, progressed, sound_events, ai_config, max_speed>>

----------------------------------------------------------------------------
(* Flocking (ai.rs) *)

(* in tenths *)
(* the match without its two wildcard arms *)
get_attraction_factor_of_listed_pairs(my_mood, other_mood) ==
    CASE my_mood = "Happy" /\ other_mood = "Happy" -> 10
      [] my_mood = "Happy" /\ other_mood = "Calm" -> 3
      [] my_mood = "Sad" /\ other_mood = "Sad" -> 5
      [] my_mood = "Sad" /\ other_mood = "Happy" -> -8
      [] my_mood = "Sad" /\ other_mood = "Rage" -> -10
      [] my_mood = "Rage" /\ other_mood = "Rage" -> -10
      [] my_mood = "Rage" /\ other_mood = "Sad" -> -10
      [] my_mood = "Calm" /\ other_mood = "Calm" -> 2
      [] OTHER -> 0

(* the match of get_attraction_factor, in tenths *)
get_attraction_factor(my_mood, other_mood) ==
    CASE my_mood = "Happy" /\ other_mood = "Happy" -> 10
      [] my_mood = "Happy" /\ other_mood = "Calm" -> 3
      [] my_mood = "Sad" /\ other_mood = "Sad" -> 5
      [] my_mood = "Sad" /\ other_mood = "Happy" -> -8
      [] my_mood = "Sad" /\ other_mood = "Rage" -> -10
      [] my_mood = "Rage" /\ other_mood = "Rage" -> -10
      [] my_mood = "Rage" /\ other_mood = "Sad" -> -10
      [] my_mood = "Rage" /\ other_mood \notin {"Rage", "Sad"} -> 2
      [] my_mood = "Calm" /\ other_mood = "Calm" -> 2
      [] my_mood = "Neutral" -> -1
      [] OTHER -> 0

(* the accumulators of the loop over the collected rows *)
MagnetismStart ==
    [cohesion_vec |-> Zero, separation_vec |-> Zero, friendly_neighbor_count |-> 0]

(* a loop body that keeps the pull of the last row only *)
MagnetismStepLastPull(a, acc, o) ==
    LET d2 == LengthSquared(VSub(pos[a], pos[o]))
        factor == get_attraction_factor(mood[a], mood[o])
    IN  IF o = a \/ d2 >= VisionRadius * VisionRadius THEN acc
        ELSE [cohesion_vec |->
                  IF factor # 0
                  THEN VMul(VSub(pos[o], pos[a]), factor)
                  ELSE acc.cohesion_vec,
              separation_vec |->
                  IF d2 < SeparationDistance * SeparationDistance /\ d2 # 0
                  THEN VAdd(acc.separation_vec,
                            VDiv(VMul(NormalizeOrZero(VSub(pos[a], pos[o])), 100),
                                 DistanceCenti(pos[a], pos[o]) + 10))
                  ELSE acc.separation_vec,
              friendly_neighbor_count |->
                  IF factor > 0 THEN acc.friendly_neighbor_count + 1
                  ELSE acc.friendly_neighbor_count]

(* a loop body that pushes away from every row in sight *)
MagnetismStepPushingAll(a, acc, o) ==
    LET d2 == LengthSquared(VSub(pos[a], pos[o]))
        factor == get_attraction_factor(mood[a], mood[o])
    IN  IF o = a \/ d2 >= VisionRadius * VisionRadius THEN acc
        ELSE [cohesion_vec |->
                  IF factor # 0
                  THEN VAdd(acc.cohesion_vec, VMul(VSub(pos[o], pos[a]), factor))
                  ELSE acc.cohesion_vec,
              separation_vec |->
                  IF d2 # 0
                  THEN VAdd(acc.separation_vec,
                            VDiv(VMul(NormalizeOrZero(VSub(pos[a], pos[o])), 100),
                                 DistanceCenti(pos[a], pos[o]) + 10))
                  ELSE acc.separation_vec,
              friendly_neighbor_count |->
                  IF factor > 0 THEN acc.friendly_neighbor_count + 1
                  ELSE acc.friendly_neighbor_count]

(* the body of the inner loop of update_ai_magnetism for the row of o:     *)
(* separation in millionths, cohesion in tenths of a unit                  *)
MagnetismStep(a, acc, o) ==
    LET d2 == LengthSquared(VSub(pos[a], pos[o]))
        factor == get_attraction_factor(mood[a], mood[o])
    IN  IF o = a \/ d2 >= VisionRadius * VisionRadius THEN acc
        ELSE [cohesion_vec |->
                  IF factor # 0
                  THEN VAdd(acc.cohesion_vec, VMul(VSub(pos[o], pos[a]), factor))
                  ELSE acc.cohesion_vec,
              separation_vec |->
                  IF d2 < SeparationDistance * SeparationDistance /\ d2 # 0
                  THEN VAdd(acc.separation_vec,
                            VDiv(VMul(NormalizeOrZero(VSub(pos[a], pos[o])), 100),
                                 DistanceCenti(pos[a], pos[o]) + 10))
                  ELSE acc.separation_vec,
              friendly_neighbor_count |->
                  IF factor > 0 THEN acc.friendly_neighbor_count + 1
                  ELSE acc.friendly_neighbor_count]

(* the inner loop over the rows of `positions` *)
RECURSIVE MagnetismLoop(_, _, _)
MagnetismLoop(a, acc, rows) ==
    IF rows = <<>> THEN acc
    ELSE MagnetismLoop(a, MagnetismStep(a, acc, Head(rows)), Tail(rows))

(* cohesion * cohesion_strength + separation * separation_strength, in     *)
(* millionths, for the rows collected in the given order                   *)
magnetic_force_over(a, rows) ==
    LET acc == MagnetismLoop(a, MagnetismStart, rows)
        cohesion_vec == IF acc.friendly_neighbor_count > 0
                        THEN VDiv(acc.cohesion_vec, acc.friendly_neighbor_count)
                        ELSE acc.cohesion_vec
    IN  VAdd(VMul(cohesion_vec, CohesionStrengthPct * 1000),
             VMul(VDiv(acc.separation_vec, 100), SeparationStrengthPct))

(* positions = all_moodels.iter().collect(): the rows in table order *)
magnetic_force(a) == magnetic_force_over(a, order)

(* the Moodel carries an AiMagnetism component *)
HasMagnetism(a) == TRUE

(* flocking without the priority override *)
MagnetismIntentWithoutOverride(a) == VAdd(intent[a], magnetic_force(a))

(* flocking that puts its force in the place of the intent *)
MagnetismIntentInPlace(a) ==
    IF wander_state[a].action.kind # "Wandering"
    THEN intent[a]
    ELSE magnetic_force(a)

(* the loop body of update_ai_magnetism, with its priority override *)
MagnetismIntent(a) ==
    IF wander_state[a].action.kind # "Wandering"
    THEN intent[a]
    ELSE VAdd(intent[a], magnetic_force(a))

update_ai_magnetism ==
    /\ "ai_magnetism" \notin ran
    /\ "ai_behavior" \in ran
    /\ ran' = ran \cup {"ai_magnetism"}
    /\ intent' = [a \in Agents |->
           IF a \in live /\ HasMagnetism(a) THEN MagnetismIntent(a) ELSE intent[a]]
    /\ UNCHANGED <<now, delta, live, order, pos, colliding, mood, mood_entity,
                   wander_state, observed, disturbed, frame_times, horizon, installed,
                   levelVars, progressed, appVars>>

----------------------------------------------------------------------------
(* Boundary avoidance (ai.rs) *)

(* the four tests taken at the margin as well *)
avoidance_force_at_margin(p) ==
    LET minx == 0 - PlayAreaWidth \div 2
        maxx == PlayAreaWidth \div 2
        miny == 0 - PlayAreaHeight \div 2
        maxy == PlayAreaHeight \div 2
        fx == IF p[1] >= maxx - AvoidanceMargin THEN 0 - AvoidanceStrength
              ELSE IF p[1] <= minx + AvoidanceMargin THEN AvoidanceStrength
              ELSE 0
        fy == IF p[2] >= maxy - AvoidanceMargin THEN 0 - AvoidanceStrength
              ELSE IF p[2] <= miny + AvoidanceMargin THEN AvoidanceStrength
              ELSE 0
    IN <<fx * Scale, fy * Scale>>

avoidance_force(p) ==
    LET minx == 0 - PlayAreaWidth \div 2
        maxx == PlayAreaWidth \div 2
        miny == 0 - PlayAreaHeight \div 2
        maxy == PlayAreaHeight \div 2
        fx == IF p[1] > maxx - AvoidanceMargin THEN 0 - AvoidanceStrength
              ELSE IF p[1] < minx + AvoidanceMargin THEN AvoidanceStrength
              ELSE 0
        fy == IF p[2] > maxy - AvoidanceMargin THEN 0 - AvoidanceStrength
              ELSE IF p[2] < miny + AvoidanceMargin THEN AvoidanceStrength
              ELSE 0
    IN <<fx * Scale, fy * Scale>>

(* boundary avoidance without the priority override *)
BoundaryIntentWithoutOverride(a) == VAdd(intent[a], avoidance_force(pos[a]))

(* the loop body of update_ai_boundary_avoidance, with its priority override *)
BoundaryIntent(a) ==
    IF wander_state[a].action.kind # "Wandering"
    THEN intent[a]
    ELSE VAdd(intent[a], avoidance_force(pos[a]))

update_ai_boundary_avoidance ==
    /\ "ai_boundary" \notin ran
    /\ "ai_magnetism" \in ran
    /\ ran' = ran \cup {"ai_boundary"}
    /\ intent' = [a \in Agents |->
           IF a \in live THEN BoundaryIntent(a) ELSE intent[a]]
    /\ UNCHANGED <<now, delta, live, order, pos, colliding, mood, mood_entity,
                   wander_state, observed, disturbed, frame_times, horizon, installed,
                   levelVars, progressed, appVars>>

----------------------------------------------------------------------------
(* The frame loop and the world outside the systems *)

(* a new frame starts once every system of the Update schedule has run *)
NewFrame ==
    /\ ran = installed
    /\ ~panicked
    /\ \E d \in frame_times :
          /\ now + d <= horizon
          /\ now' = now + d
          /\ delta' = d
          /\ observed' = [a \in Agents |->
                 [observed[a] EXCEPT
                     !.converted = FALSE, !.seen = 0, !.gap = StabilityThreshold,
                     !.cycled = FALSE, !.was = mood[a], !.held = 0,
                     !.since = IF @ + d < StabilityThreshold
                               THEN @ + d ELSE StabilityThreshold]]
    /\ ran' = {}
    /\ sound_events' = <<>>
    /\ UNCHANGED <<ai_config, panicked, max_speed>>

(* some Moodel is in the middle of a rage sequence *)
RageSequence == \E a \in live : wander_state[a].action.kind # "Wandering"

(* the next frame, nothing else having changed *)
FrameQuiet ==
    /\ NewFrame
    /\ UNCHANGED <<live, order, pos, colliding, mood, mood_entity, wander_state,
                   intent, disturbed, frame_times, horizon, installed,
                   levelVars, progressed>>

(* the physics step has moved one Moodel *)
FrameMove ==
    /\ NewFrame
    /\ ~disturbed /\ RageSequence
    /\ \E a \in live, p \in Points :
          /\ p # pos[a]
          /\ pos' = [pos EXCEPT ![a] = p]
    /\ disturbed' = TRUE
    /\ UNCHANGED <<live, order, colliding, mood, mood_entity, wander_state,
                   intent, frame_times, horizon, installed,
                   levelVars, progressed>>

(* swap_remove of row i of the table *)
SwapRemove(seq, i) ==
    [j \in 1..(Len(seq) - 1) |-> IF j = i THEN seq[Len(seq)] ELSE seq[j]]

(* one Moodel has been despawned *)
FrameDespawn ==
    /\ NewFrame
    /\ ~disturbed /\ RageSequence
    /\ \E i \in 1..Len(order) :
          /\ live' = live \ {order[i]}
          /\ order' = SwapRemove(order, i)
    /\ disturbed' = TRUE
    /\ UNCHANGED <<pos, colliding, mood, mood_entity, wander_state, intent,
                   frame_times, horizon, installed,
                   levelVars, progressed>>

(* the physics step has changed the contacts of one Moodel *)
FrameContact ==
    /\ NewFrame
    /\ \E a \in live, c \in CollisionCounts :
          /\ c # colliding[a]
          /\ colliding' = [colliding EXCEPT ![a] = c]
    /\ UNCHANGED <<live, order, pos, mood, mood_entity, wander_state, intent,
                   disturbed, frame_times, horizon, installed,
                   levelVars, progressed>>

----------------------------------------------------------------------------
(* Goal zones (level.rs) *)

(* the zones a level can hold, and the Moodels of a zone level *)
ZoneIds == {1, 2}

ZoneAgents == {1, 2}

RequiredCounts == {1, 2}

ZoneMoods == {"Happy", "Sad"}

ZoneDeltas == {2}

LevelSystems == {"zone_collisions", "zone_state", "win_condition"}

(* the entity of a zone; the entity of Moodel a is a *)
ZoneEntity(z) == 0 - z

(* GoalZone { target_mood, required_count, ..default() } *)
GoalZoneSpawned(data) ==
    [target_mood |-> data.target_mood, required_count |-> data.required_count,
     current_count |-> 0, is_satisfied |-> FALSE, entities_inside |-> {}]

GoalZoneDefault == GoalZoneSpawned([target_mood |-> "Neutral", required_count |-> 0])

(* a helper that names the Moodel before it has looked at the other entity *)
get_moodel_and_zone_moodel_first(entity1, entity2) ==
    IF entity1 \in live
    THEN [moodel_entity |-> entity1,
          zone_entity |-> IF \E z \in zones : entity2 = ZoneEntity(z)
                          THEN 0 - entity2 ELSE NoEntity]
    ELSE IF entity2 \in live /\ \E z \in zones : entity1 = ZoneEntity(z)
    THEN [moodel_entity |-> entity2, zone_entity |-> 0 - entity1]
    ELSE [moodel_entity |-> NoEntity, zone_entity |-> NoEntity]

(* the Moodel and the zone of a collision pair, in either order *)
get_moodel_and_zone(entity1, entity2) ==
    IF entity1 \in live /\ \E z \in zones : entity2 = ZoneEntity(z)
    THEN [moodel_entity |-> entity1, zone_entity |-> 0 - entity2]
    ELSE IF entity2 \in live /\ \E z \in zones : entity1 = ZoneEntity(z)
    THEN [moodel_entity |-> entity2, zone_entity |-> 0 - entity1]
    ELSE [moodel_entity |-> NoEntity, zone_entity |-> NoEntity]

(* a CollisionStarted handler that gives the effect whatever the mood *)
OnCollisionStartedOfAnyMood(st, ev) ==
    LET mz == get_moodel_and_zone(ev[1], ev[2])
        m == mz.moodel_entity
        z == mz.zone_entity
    IN  IF m = NoEntity THEN st
        ELSE [zone |-> [st.zone EXCEPT ![z].entities_inside = @ \cup {m}],
              entry |-> st.entry + 1]

(* one CollisionStarted event: the Moodel joins the zone's set; a Moodel of   *)
(* the target mood gets PlaySound::CorrectZoneEntry and AnimateScale           *)
OnCollisionStarted(st, ev) ==
    LET mz == get_moodel_and_zone(ev[1], ev[2])
        m == mz.moodel_entity
        z == mz.zone_entity
    IN  IF m = NoEntity THEN st
        ELSE [zone |-> [st.zone EXCEPT ![z].entities_inside = @ \cup {m}],
              entry |-> IF mood[m] = st.zone[z].target_mood
                        THEN st.entry + 1 ELSE st.entry]

(* one CollisionEnded event: the Moodel leaves the zone's set *)
OnCollisionEnded(st, ev) ==
    LET mz == get_moodel_and_zone(ev[1], ev[2])
        m == mz.moodel_entity
        z == mz.zone_entity
    IN  IF m = NoEntity THEN st
        ELSE [st EXCEPT !.zone[z].entities_inside = @ \ {m}]

RECURSIVE ReadStarted(_, _)
ReadStarted(st, evs) ==
    IF evs = <<>> THEN st
    ELSE ReadStarted(OnCollisionStarted(st, Head(evs)), Tail(evs))

RECURSIVE ReadEnded(_, _)
ReadEnded(st, evs) ==
    IF evs = <<>> THEN st
    ELSE ReadEnded(OnCollisionEnded(st, Head(evs)), Tail(evs))

(* zone_entity.unwrap() after the is_none test of the Moodel alone: it      *)
(* panics for an event whose pair has a Moodel and no zone                  *)
UnwrapFails(evs) ==
    \E i \in 1..Len(evs) :
        LET mz == get_moodel_and_zone(evs[i][1], evs[i][2])
        IN  mz.moodel_entity # NoEntity /\ mz.zone_entity = NoEntity

(* the started events are all read before the ended events *)
ZonesAfterCollisions ==
    ReadEnded(ReadStarted([zone |-> goal_zone, entry |-> 0], started), ended)

handle_zone_collisions ==
    /\ "zone_collisions" \in installed \ ran
    /\ IF UnwrapFails(started \o ended)
       THEN /\ panicked' = TRUE
            /\ UNCHANGED <<goal_zone, noted, sound_events>>
       ELSE /\ panicked' = panicked
            /\ goal_zone' = ZonesAfterCollisions.zone
            /\ noted' = [noted EXCEPT !.entry = ZonesAfterCollisions.entry,
                                      !.moods = mood]
            /\ sound_events' = sound_events \o
                   [i \in 1..ZonesAfterCollisions.entry |-> CorrectZoneEntry]
    /\ started' = <<>>
    /\ ended' = <<>>
    /\ ran' = ran \cup {"zone_collisions"}
    /\ UNCHANGED <<now, delta, live, order, pos, colliding, mood, mood_entity,
                   wander_state, intent, observed, disturbed, frame_times, horizon,
                   installed, active_level, zones, level_won, progressed,
                   ai_config, max_speed>>

(* the ids of the set whose Moodel exists and has the target mood *)
(* the ids of the set with the target mood, despawned ones included *)
MatchingInsideOfAnyEntity(gz) ==
    {m \in gz.entities_inside : mood[m] = gz.target_mood}

MatchingInside(gz) ==
    {m \in gz.entities_inside : m \in live /\ mood[m] = gz.target_mood}

(* the count without the mood test *)
CountedZoneOfAnyMood(gz) ==
    LET count == Cardinality({m \in gz.entities_inside : m \in live})
    IN  [gz EXCEPT !.current_count = count,
                   !.is_satisfied = count >= gz.required_count]

(* the flag raised only above the required count *)
CountedZoneStrictly(gz) ==
    LET count == Cardinality(MatchingInside(gz))
    IN  [gz EXCEPT !.current_count = count,
                   !.is_satisfied = count > gz.required_count]

CountedZone(gz) ==
    LET count == Cardinality(MatchingInside(gz))
    IN  [gz EXCEPT !.current_count = count,
                   !.is_satisfied = count >= gz.required_count]

update_zone_state ==
    /\ "zone_state" \in installed \ ran
    /\ "zone_collisions" \in ran
    /\ goal_zone' = [z \in ZoneIds |-> IF z \in zones THEN CountedZone(goal_zone[z])
                                       ELSE goal_zone[z]]
    /\ noted' = [noted EXCEPT !.counted = TRUE, !.moods = mood]
    /\ ran' = ran \cup {"zone_state"}
    /\ UNCHANGED <<now, delta, live, order, pos, colliding, mood, mood_entity,
                   wander_state, intent, observed, disturbed, frame_times, horizon,
                   installed, active_level, zones, started, ended, level_won,
                   progressed, appVars>>

(* the latch set by a level without zones *)
WinsWithoutZones(all_satisfied) == all_satisfied /\ ~level_won

(* zone_query.is_empty() returns; then all_satisfied && !*level_won *)
Wins(all_satisfied) == zones # {} /\ all_satisfied /\ ~level_won

(* the latch following the zones *)
LatchFollowingZones(all_satisfied) == zones # {} /\ all_satisfied

(* the value of *level_won after the system *)
LatchAfter(all_satisfied) == IF Wins(all_satisfied) THEN TRUE ELSE level_won

check_win_condition ==
    /\ "win_condition" \in installed \ ran
    /\ "zone_state" \in ran
    /\ LET all_satisfied == \A z \in zones : goal_zone[z].is_satisfied
       IN  /\ level_won' = LatchAfter(all_satisfied)
           /\ noted' = [noted EXCEPT
                  !.complete = IF Wins(all_satisfied) THEN @ + 1 ELSE @,
                  !.signalled = IF Wins(all_satisfied) THEN 1 ELSE 0,
                  !.surfaced = @ \/ Wins(all_satisfied)]
    /\ ran' = ran \cup {"win_condition"}
    /\ UNCHANGED <<now, delta, live, order, pos, colliding, mood, mood_entity,
                   wander_state, intent, observed, disturbed, frame_times, horizon,
                   installed, active_level, zones, goal_zone, started, ended,
                   progressed, appVars>>

(* nothing seen yet *)
Unobserved(m) ==
    [before |-> Wandering, mood |-> m, eligible |-> {}, cooled |-> FALSE,
     fired |-> FALSE, base |-> Zero,
     converted |-> FALSE, seen |-> 0, gap |-> StabilityThreshold,
     since |-> StabilityThreshold,
     cycled |-> FALSE, was |-> m, held |-> 0, left |-> m # "Neutral",
     expired |-> FALSE, spent |-> 0, aimings |-> 0, charges |-> 0,
     barred |-> FALSE]

(* Collision notifications of the physics engine, in the order of emission. *)
(* The engine fixes the order of the two entities of a pair: the started    *)
(* events here carry the Moodel first, the ended events the zone first.     *)
NotificationsOf(A, Z) ==
    {[kind |-> "enter", pair |-> <<a, ZoneEntity(z)>>] : a \in A, z \in Z}
    \cup {[kind |-> "exit", pair |-> <<ZoneEntity(z), a>>] : a \in A, z \in Z}

(* between a live Moodel and a zone of the level *)
LiveNotifications == NotificationsOf(live, zones)

(* between a zone and an entity that is no Moodel of the level any more,  *)
(* and the start of a contact of a Moodel with an entity that is no zone  *)
DeadIdNotifications ==
    NotificationsOf(ZoneAgents \ live, zones)
    \cup {[kind |-> "enter", pair |-> <<a, ZoneEntity(z)>>] :
             a \in live, z \in ZoneIds \ zones}

(* an entity with a collider that is neither a Moodel nor a zone *)
WallEntity == 0 - (Cardinality(ZoneIds) + 1)

(* the other contacts the physics engine reports: two Moodels, a Moodel    *)
(* and a wall in either order, two zones                                   *)
OtherNotifications ==
    {[kind |-> "enter", pair |-> q] : q \in {r \in live \X live : r[1] < r[2]}}
    \cup {[kind |-> "enter", pair |-> <<a, WallEntity>>] : a \in live}
    \cup {[kind |-> "exit", pair |-> <<WallEntity, a>>] : a \in live}
    \cup {[kind |-> "exit", pair |-> <<ZoneEntity(q[1]), ZoneEntity(q[2])>>] :
             q \in {r \in zones \X zones : r[1] < r[2]}}

Notifications == LiveNotifications \cup DeadIdNotifications \cup OtherNotifications

NotificationSeqs ==
    {<<>>} \cup {<<n>> : n \in Notifications}
           \cup {<<n1, n2>> : n1 \in LiveNotifications, n2 \in LiveNotifications}

(* the Moodel and the zone a notification is about *)
Subject(n) ==
    IF n.pair[1] > 0 THEN <<n.pair[1], 0 - n.pair[2]>>
    ELSE <<n.pair[2], 0 - n.pair[1]>>

(* the pairs whose most recent notification is an enter *)
RECURSIVE InsideAfter(_, _)
InsideAfter(inside, notes) ==
    IF notes = <<>> THEN inside
    ELSE InsideAfter(IF Subject(Head(notes)) \notin ZoneAgents \X ZoneIds
                     THEN inside
                     ELSE IF Head(notes).kind = "enter"
                     THEN inside \cup {Subject(Head(notes))}
                     ELSE inside \ {Subject(Head(notes))},
                     Tail(notes))

RECURSIVE PairsOf(_, _)
PairsOf(notes, kind) ==
    IF notes = <<>> THEN <<>>
    ELSE IF Head(notes).kind = kind
    THEN <<Head(notes).pair>> \o PairsOf(Tail(notes), kind)
    ELSE PairsOf(Tail(notes), kind)

(* nothing noted yet in a level instance *)
NothingNoted ==
    [inside |-> {}, notes |-> <<>>, before |-> [z \in ZoneIds |-> GoalZoneDefault],
     entry |-> 0, complete |-> 0, signalled |-> 0, was_won |-> FALSE,
     moods |-> [a \in Agents |-> "Neutral"], fresh |-> TRUE, counted |-> FALSE,
     instance |-> 1, sent |-> 0, surfaced |-> FALSE]

(* the collision events the physics steps of a frame have written *)
Notified(notes) ==
    /\ noted.sent + Len(notes) <= MaxNotifications
    /\ started' = started \o PairsOf(notes, "enter")
    /\ ended' = ended \o PairsOf(notes, "exit")
    /\ noted' = [noted EXCEPT
           !.inside = InsideAfter(@, notes), !.notes = notes,
           !.before = goal_zone, !.entry = 0, !.fresh = FALSE,
           !.signalled = 0, !.was_won = level_won,
           !.sent = @ + Len(notes)]

(* the next frame; the physics steps have written their collision events *)
FrameNotify ==
    /\ NewFrame
    /\ \E notes \in NotificationSeqs : Notified(notes)
    /\ UNCHANGED <<live, order, pos, colliding, mood, mood_entity, wander_state,
                   intent, disturbed, frame_times, horizon, installed,
                   active_level, zones, goal_zone, level_won, progressed>>

(* the next frame; a Moodel that is in a zone's set has been despawned on *)
(* its own                                                                *)
FrameLeave ==
    /\ NewFrame
    /\ ~disturbed
    /\ \E i \in 1..Len(order) :
          /\ \E z \in zones : order[i] \in goal_zone[z].entities_inside
          /\ live' = live \ {order[i]}
          /\ order' = SwapRemove(order, i)
    /\ disturbed' = TRUE
    /\ Notified(<<>>)
    /\ UNCHANGED <<pos, colliding, mood, mood_entity, wander_state,
                   intent, frame_times, horizon, installed,
                   active_level, zones, goal_zone, level_won, progressed>>

(* the entities of the level data, as spawn_level_entities makes them *)
LevelSpawned ==
    /\ live = DOMAIN active_level.moodels
    /\ mood = [a \in Agents |-> IF a \in DOMAIN active_level.moodels
                                THEN active_level.moodels[a] ELSE "Neutral"]
    /\ zones = DOMAIN active_level.goal_zones
    /\ goal_zone = [z \in ZoneIds |->
                       IF z \in DOMAIN active_level.goal_zones
                       THEN GoalZoneSpawned(active_level.goal_zones[z])
                       ELSE GoalZoneDefault]

(* Screen::Gameplay is left and entered again: teardown_level despawns the *)
(* level's entities, spawn_level_entities spawns them anew                 *)
LevelRestart ==
    /\ ran = installed
    /\ noted.instance < MaxInstances
    /\ \E d \in frame_times :
          /\ now + d <= horizon
          /\ now' = now + d
          /\ delta' = d
    /\ ran' = {}
    /\ live' = DOMAIN active_level.moodels
    /\ order' = [i \in 1..Cardinality(DOMAIN active_level.moodels) |-> i]
    /\ mood' = [a \in Agents |-> IF a \in DOMAIN active_level.moodels
                                 THEN active_level.moodels[a] ELSE "Neutral"]
    /\ mood_entity' = [a \in Agents |-> MoodEntityDefault]
    /\ \E sd \in SpawnStateDurations, cd \in SpawnCooldownDurations :
          wander_state' = [a \in Agents |-> AiWanderStateNew(sd, cd)]
    /\ intent' = [a \in Agents |-> Zero]
    /\ observed' = [a \in Agents |-> Unobserved(mood'[a])]
    /\ zones' = DOMAIN active_level.goal_zones
    /\ goal_zone' = [z \in ZoneIds |->
                        IF z \in DOMAIN active_level.goal_zones
                        THEN GoalZoneSpawned(active_level.goal_zones[z])
                        ELSE GoalZoneDefault]
    /\ started' = <<>>
    /\ ended' = <<>>
    /\ noted' = [NothingNoted EXCEPT !.instance = noted.instance + 1,
                                     !.complete = noted.complete,
                                     !.was_won = level_won,
                                     !.sent = noted.sent]
    /\ UNCHANGED <<pos, colliding, disturbed, frame_times, horizon, installed,
                   active_level, level_won, progressed, ai_config, panicked>>
    /\ sound_events' = <<>>
    /\ max_speed' = [a \in Agents |-> MovementControllerSpawned(mood'[a]).max_speed]

(* next_in_cycle applied to the last mood of a Moodel's sequence *)
Progress ==
    \E a \in CycleAgents :
       /\ Len(progressed[a]) <= MaxProgressions
       /\ progressed' = [progressed EXCEPT
              ![a] = Append(@, next_in_cycle(@[Len(@)]))]
       /\ UNCHANGED <<now, delta, ran, live, order, pos, colliding, mood, mood_entity,
                      wander_state, intent, observed, disturbed, frame_times, horizon,
                      installed, levelVars, appVars>>

----------------------------------------------------------------------------
(* Specifications *)

(* the level has just been spawned with the Moodels of S, moods drawn from M *)
Spawned(S, M) ==
    /\ now = 0
    /\ delta = 0
    /\ ran = installed
    /\ live = S
    /\ order = [i \in 1..Cardinality(S) |-> i]
    /\ pos = [a \in Agents |-> SpawnPositions[((a - 1) % Len(SpawnPositions)) + 1]]
    /\ mood \in {m \in [Agents -> Moods] :
                    \A a \in Agents : IF a \in S THEN m[a] \in M ELSE m[a] = "Neutral"}
    /\ mood_entity = [a \in Agents |-> MoodEntityDefault]
    /\ \E sd \in SpawnStateDurations :
          wander_state \in [Agents -> {AiWanderStateNew(sd, cd) :
                                          cd \in SpawnCooldownDurations}]
    /\ intent = [a \in Agents |-> Zero]
    /\ observed = [a \in Agents |-> Unobserved(mood[a])]
    /\ sound_events = <<>>
    /\ panicked = FALSE
    /\ max_speed = [a \in Agents |-> MovementControllerSpawned(mood[a]).max_speed]

(* a level without goal zones *)
NoLevelZones ==
    /\ active_level = [moodels |-> [a \in live |-> mood[a]], goal_zones |-> <<>>]
    /\ zones = {}
    /\ goal_zone = [z \in ZoneIds |-> GoalZoneDefault]
    /\ started = <<>>
    /\ ended = <<>>
    /\ level_won = FALSE
    /\ noted = NothingNoted

(* a level of Moodels around a Rage Moodel *)
RageLevel ==
    /\ installed = Systems
    /\ Spawned(Agents, SpawnMoods)
    /\ mood[1] = "Rage"
    /\ \A a \in Agents \ {1, 2} : mood[a] = "Happy"
    /\ colliding = [a \in Agents |-> IF mood[a] = "Rage" THEN 6 ELSE 0]
    /\ disturbed = FALSE
    /\ frame_times = Deltas
    /\ horizon = MaxTime
    /\ NoLevelZones
    /\ progressed = [a \in Agents |-> <<>>]

Init ==
    /\ RageLevel
    /\ ai_config = AiConfigDefault

Next ==
    \/ update_mood_based_on_collisions
    \/ update_mood_natural_progression
    \/ update_ai_behavior
    \/ update_ai_magnetism
    \/ update_ai_boundary_avoidance
    \/ FrameQuiet
    \/ FrameMove
    \/ FrameDespawn

Spec == Init /\ [][Next]_vars

(* the same level and systems under an AiConfig resource whose cooldown    *)
(* range is the default one, a reversed one or an empty one                *)
InitConfig ==
    /\ RageLevel
    /\ ai_config \in AiConfigs

SpecConfig == InitConfig /\ [][Next]_vars

(* the Moodels of the level that is run for longer *)
RearmAgents == {1, 2, 3}

(* an AiConfig resource with a cooldown range of 1.5 s to 1.75 s *)
AiConfigQuick == [rage_charge_cooldown |-> <<6, 7>>]

(* the same level and systems under that resource, for long enough that a  *)
(* Moodel uses its ability twice and the cyclic rule fires in between      *)
InitRearm ==
    /\ installed = Systems
    /\ Spawned(RearmAgents, SpawnMoods)
    /\ mood[1] = "Rage"
    /\ \A a \in RearmAgents \ {1, 2} : mood[a] = "Happy"
    /\ colliding = [a \in Agents |-> IF mood[a] = "Rage" THEN 6 ELSE 0]
    /\ disturbed = FALSE
    /\ frame_times = Deltas
    /\ horizon = MaxRearmTime
    /\ NoLevelZones
    /\ progressed = [a \in Agents |-> <<>>]
    /\ ai_config = AiConfigQuick

SpecRearm == InitRearm /\ [][Next]_vars

(* A frame of the AI plugin over a running level: three Wandering Moodels *)
(* of any moods, near the edges and corners of the play area, next to one *)
(* another, at the separation distance and at the vision radius.  Moodel 1 *)
(* has either just used its ability or is about to have it again.          *)
InitScene ==
    /\ installed = AiSystems
    /\ now = 0
    /\ delta = 0
    /\ ran = installed
    /\ live = SceneAgents
    /\ order = [i \in 1..Cardinality(SceneAgents) |-> i]
    /\ pos \in {p \in [Agents -> ScenePoints \cup SceneAnchors] :
                   \A a \in Agents :
                      IF a = Cardinality(SceneAgents) THEN p[a] \in SceneAnchors
                      ELSE IF a \in SceneAgents THEN p[a] \in ScenePoints
                      ELSE p[a] = Zero}
    /\ mood \in {m \in [Agents -> Moods] :
                    /\ m[Cardinality(SceneAgents)] \in SpawnMoods
                    /\ \A a \in Agents \ SceneAgents : m[a] = "Neutral"}
    /\ mood_entity = [a \in Agents |-> MoodEntityDefault]
    /\ \E e \in SceneCooldownsElapsed :
          wander_state = [a \in Agents |->
              IF a = 1 THEN SceneWanderState(e) ELSE SceneWanderState(0)]
    /\ intent = [a \in Agents |-> Zero]
    /\ observed = [a \in Agents |-> Unobserved(mood[a])]
    /\ sound_events = <<>>
    /\ panicked = FALSE
    /\ max_speed = [a \in Agents |-> MovementControllerSpawned(mood[a]).max_speed]
    /\ colliding = [a \in Agents |-> 0]
    /\ disturbed = FALSE
    /\ frame_times = Deltas
    /\ horizon = MaxSceneTime
    /\ ai_config = AiConfigDefault
    /\ NoLevelZones
    /\ progressed = [a \in Agents |-> <<>>]

NextScene ==
    \/ update_ai_behavior
    \/ update_ai_magnetism
    \/ update_ai_boundary_avoidance
    \/ FrameQuiet

SpecScene == InitScene /\ [][NextScene]_vars

(* the mood plugin alone, and a single Moodel whose contacts come and go *)
InitMood ==
    /\ installed = MoodSystems
    /\ Spawned({1}, Moods)
    /\ colliding \in {c \in [Agents -> CollisionCounts] :
                         \A a \in Agents \ {1} : c[a] = 0}
    /\ disturbed = FALSE
    /\ frame_times = MoodDeltas
    /\ horizon = MaxMoodTime
    /\ ai_config = AiConfigDefault
    /\ NoLevelZones
    /\ progressed = [a \in Agents |-> <<>>]

NextMood ==
    \/ update_mood_based_on_collisions
    \/ update_mood_natural_progression
    \/ FrameQuiet
    \/ FrameContact

SpecMood == InitMood /\ [][NextMood]_vars

(* a level of two Moodels and up to two goal zones: the level plugin's zone *)
(* systems and the mood plugin                                              *)
LevelData ==
    {[moodels |-> m, goal_zones |-> g] :
        m \in [ZoneAgents -> ZoneMoods],
        g \in UNION {[Z -> [target_mood : ZoneMoods, required_count : RequiredCounts]] :
                        Z \in {{}, {1}, {1, 2}}}}

(* Happy Moodels; a Happy zone and, in the larger levels, a Sad zone for one *)
InitZone ==
    /\ installed = LevelSystems \cup MoodSystems
    /\ active_level \in {l \in LevelData :
          /\ \A a \in DOMAIN l.moodels : l.moodels[a] = "Happy"
          /\ \A z \in DOMAIN l.goal_zones :
                IF z = 1 THEN l.goal_zones[z].target_mood = "Happy"
                ELSE /\ l.goal_zones[z].target_mood = "Sad"
                     /\ l.goal_zones[z].required_count = 1}
    /\ Spawned(ZoneAgents, ZoneMoods)
    /\ LevelSpawned
    /\ colliding = [a \in Agents |-> IF a = 1 THEN 4 ELSE 0]
    /\ disturbed = FALSE
    /\ frame_times = ZoneDeltas
    /\ horizon = MaxZoneTime
    /\ ai_config = AiConfigDefault
    /\ started = <<>>
    /\ ended = <<>>
    /\ level_won = FALSE
    /\ noted = NothingNoted
    /\ progressed = [a \in Agents |-> <<>>]

NextZone ==
    \/ handle_zone_collisions
    \/ update_zone_state
    \/ check_win_condition
    \/ update_mood_based_on_collisions
    \/ update_mood_natural_progression
    \/ FrameNotify
    \/ FrameLeave
    \/ LevelRestart

SpecZone == InitZone /\ [][NextZone]_vars

(* levels whose zones all ask for no Moodel at all *)
OpenLevelData ==
    {[moodels |-> m, goal_zones |-> g] :
        m \in [ZoneAgents -> ZoneMoods],
        g \in UNION {[Z -> [target_mood : ZoneMoods, required_count : {0}]] :
                        Z \in {{1}, {1, 2}}}}

(* the zone systems and the mood plugin over such a level *)
InitOpen ==
    /\ installed = LevelSystems \cup MoodSystems
    /\ active_level \in {l \in OpenLevelData :
          /\ \A a \in DOMAIN l.moodels : l.moodels[a] = "Happy"
          /\ \A z \in DOMAIN l.goal_zones :
                l.goal_zones[z].target_mood = (IF z = 1 THEN "Happy" ELSE "Sad")}
    /\ Spawned(ZoneAgents, ZoneMoods)
    /\ LevelSpawned
    /\ colliding = [a \in Agents |-> IF a = 1 THEN 4 ELSE 0]
    /\ disturbed = FALSE
    /\ frame_times = ZoneDeltas
    /\ horizon = MaxOpenTime
    /\ ai_config = AiConfigDefault
    /\ started = <<>>
    /\ ended = <<>>
    /\ level_won = FALSE
    /\ noted = NothingNoted
    /\ progressed = [a \in Agents |-> <<>>]

SpecOpen == InitOpen /\ [][NextZone]_vars

(* next_in_cycle on its own: the moods it gives from every mood *)
InitCycle ==
    /\ installed = {}
    /\ Spawned({}, Moods)
    /\ colliding = [a \in Agents |-> 0]
    /\ disturbed = FALSE
    /\ frame_times = {}
    /\ horizon = 0
    /\ ai_config = AiConfigDefault
    /\ NoLevelZones
    /\ progressed \in {p \in [Agents -> {<<>>} \cup {<<m>> : m \in Moods}] :
                          \A a \in Agents : p[a] # <<>> <=> a \in CycleAgents}

NextCycle == Progress

SpecCycle == InitCycle /\ [][NextCycle]_vars

----------------------------------------------------------------------------
(* Properties of the action state machine *)

(* update_ai_behavior has evaluated every live Moodel in the current frame *)
Evaluated == "ai_behavior" \in ran

(* the action state machine, flocking and boundary avoidance have all run *)
Settled == AiSystems \subseteq ran

(* a Moodel was evaluated as a Wandering Rage Moodel whose cooldown had just
   elapsed, with at least one eligible target *)
Triggered(a) ==
    /\ Evaluated
    /\ observed[a].before.kind = "Wandering"
    /\ observed[a].mood = "Rage"
    /\ observed[a].cooled
    /\ observed[a].eligible # {}

(* the eligible Moodels at minimum Euclidean distance from a *)
NearestEligible(a) ==
    {u \in observed[a].eligible : \A v \in observed[a].eligible :
        LengthSquared(VSub(pos[u], pos[a])) <= LengthSquared(VSub(pos[v], pos[a]))}

(* C1: a Wandering Rage Moodel whose cooldown has just elapsed and that has an
   eligible target is Aiming after the tick, at the eligible Moodel at minimum
   Euclidean distance. *)
C1_AimsAtNearest ==
    \A a \in live : Triggered(a) =>
        /\ wander_state[a].action.kind = "Aiming"
        /\ wander_state[a].action.target \in NearestEligible(a)

(* a timer freshly armed with duration d *)
Armed(t, d) == t.duration = d /\ t.elapsed = 0 /\ ~t.finished /\ t.times = 0

(* a Moodel was evaluated in Aiming, or turned from Wandering to Aiming *)
AimingTick(a) ==
    /\ Evaluated
    /\ \/ observed[a].before.kind = "Aiming"
       \/ /\ observed[a].before.kind = "Wandering"
          /\ wander_state[a].action.kind = "Aiming"

(* C2 as stated: on every tick a Moodel is evaluated in Aiming, and on the
   tick it turns from Wandering to Aiming, the intent at the end of the tick
   is the zero vector. *)
C2_ZeroIntentAtEndOfTick ==
    \A a \in live : AimingTick(a) /\ Settled => intent[a] = Zero

(* C2: on every tick a Moodel is evaluated in Aiming, and on the tick it turns
   from Wandering to Aiming, the state machine writes the zero vector, and the
   intent stays zero to the end of the tick unless the Moodel fell back to
   Wandering in that tick. *)
C2_ZeroIntentUnlessFallback ==
    \A a \in live : AimingTick(a) =>
        /\ observed[a].base = Zero
        /\ wander_state[a].action.kind # "Wandering" => intent[a] = Zero

C2_Witness ==
    \E a \in live :
        /\ AimingTick(a) /\ Settled
        /\ observed[a].before.kind = "Aiming"
        /\ wander_state[a].action.kind = "Aiming"
        /\ magnetic_force(a) # Zero
        /\ intent[a] = Zero

(* a vector of length one, in millionths, up to the rounding of the model *)
IsUnit(v) ==
    LET n == LengthSquared(VDiv(v, 1000))
    IN 990 * 1000 <= n /\ n <= 1010 * 1000

(* v points along d, up to the rounding of the model *)
PointsToward(v, d) ==
    LET cross == v[1] * d[2] - v[2] * d[1]
        dot == Div(v[1], 1000) * d[1] + Div(v[2], 1000) * d[2]
        slack == 2000 * ((IF d[1] >= 0 THEN d[1] ELSE -d[1])
                         + (IF d[2] >= 0 THEN d[2] ELSE -d[2]))
    IN dot > 0 /\ cross <= slack /\ -cross <= slack

ChargingTick(a) == Evaluated /\ observed[a].before.kind = "Charging"

(* the frozen target position is the same after the tick *)
StaysFrozen(a) ==
    wander_state[a].action.kind = "Charging" =>
        wander_state[a].action.target_pos = observed[a].before.target_pos

(* C3 as stated: on every tick in Charging the intent is the unit vector from
   the current position toward the frozen target position, which never
   changes while Charging. *)
C3_UnitVectorTowardFrozen ==
    \A a \in live : ChargingTick(a) =>
        /\ IsUnit(observed[a].base)
        /\ PointsToward(observed[a].base,
                        VSub(observed[a].before.target_pos, pos[a]))
        /\ StaysFrozen(a)

(* C3: on every tick in Charging the intent written by the state machine is
   the unit vector from the current position toward the frozen target
   position, or the zero vector when the Moodel is exactly at that position;
   the frozen position never changes while Charging. *)
C3_UnitVectorOrZero ==
    \A a \in live : ChargingTick(a) =>
        /\ IF observed[a].before.target_pos = pos[a]
           THEN observed[a].base = Zero
           ELSE /\ IsUnit(observed[a].base)
                /\ PointsToward(observed[a].base,
                                VSub(observed[a].before.target_pos, pos[a]))
        /\ StaysFrozen(a)

C3_Witness ==
    \E a \in live :
        /\ ChargingTick(a)
        /\ wander_state[a].action.kind = "Charging"
        /\ IsUnit(observed[a].base)
        /\ \A u \in live : pos[u] # observed[a].before.target_pos

(* C4: when the charge timer elapses for a Charging Moodel, the action is
   Wandering after the tick, the cooldown duration lies in the configured
   half-open range and the cooldown timer is reset to zero elapsed time. *)
C4_ChargeCompletes ==
    \A a \in live : ChargingTick(a) /\ observed[a].fired =>
        /\ wander_state[a].action = Wandering
        /\ wander_state[a].ability_cooldown.duration \in RageChargeCooldown
        /\ wander_state[a].ability_cooldown.elapsed = 0
        /\ ~Finished(wander_state[a].ability_cooldown)
        /\ ~JustFinished(wander_state[a].ability_cooldown)

C4_Witness ==
    \E a \in live :
        /\ ChargingTick(a) /\ observed[a].fired
        /\ wander_state[a].action = Wandering
        /\ wander_state[a].ability_cooldown.duration = RageChargeCooldownMax - 1

(* C5: for a Moodel that is not Wandering when flocking and boundary avoidance
   run, the intent after each of them is the intent the state machine wrote in
   that tick. *)
C5_PriorityOverride ==
    \A a \in live :
        Evaluated /\ wander_state[a].action.kind # "Wandering" =>
            intent[a] = observed[a].base

C5_Witness ==
    \E a \in live :
        /\ Settled
        /\ wander_state[a].action.kind = "Charging"
        /\ observed[a].base # Zero
        /\ magnetic_force(a) # Zero
        /\ intent[a] = observed[a].base

(* the aim timer elapsed for a Moodel evaluated in Aiming *)
AimElapsed(a) ==
    /\ Evaluated
    /\ observed[a].before.kind = "Aiming"
    /\ observed[a].fired

(* C6: when the aim timer elapses for an Aiming Moodel, if the target exists
   the action becomes Charging at the target's position of that tick, with the
   charge timer armed with the charge duration; otherwise the action becomes
   Wandering. *)
C6_AimCompletes ==
    \A a \in live : AimElapsed(a) =>
        IF observed[a].before.target \in live
        THEN /\ wander_state[a].action = Charging(pos[observed[a].before.target])
             /\ Armed(wander_state[a].state_timer, RageChargeDuration)
        ELSE wander_state[a].action = Wandering

C6_Witness ==
    \E a \in live :
        /\ AimElapsed(a)
        /\ observed[a].before.target \in live
        /\ pos[observed[a].before.target]
              # SpawnPositions[observed[a].before.target]
        /\ wander_state[a].action = Charging(pos[observed[a].before.target])

(* a Moodel was evaluated in Aiming at a target that no longer exists *)
LostTarget(a) ==
    /\ Evaluated
    /\ observed[a].before.kind = "Aiming"
    /\ observed[a].before.target \notin live

(* C7 as stated: an Aiming Moodel whose target has been removed is Wandering
   after its next evaluation. *)
C7_FallsBackNextTick ==
    \A a \in live : LostTarget(a) => wander_state[a].action.kind = "Wandering"

(* C7: an Aiming Moodel whose target has been removed stays Aiming, with zero
   intent, until its aim timer elapses, and is Wandering after the evaluation
   in which the timer elapses; it never charges. *)
C7_FallsBackWhenAimElapses ==
    \A a \in live : LostTarget(a) =>
        IF observed[a].fired
        THEN wander_state[a].action = Wandering
        ELSE /\ wander_state[a].action = observed[a].before
             /\ intent[a] = Zero

C7_Witness ==
    \E a \in live :
        /\ LostTarget(a)
        /\ ~observed[a].fired
        /\ wander_state[a].action.kind = "Aiming"

(* a Moodel entered Aiming in the current frame *)
EnteredAiming(a) ==
    /\ Evaluated
    /\ wander_state[a].action.kind = "Aiming"
    /\ observed[a].before.kind # "Aiming"

(* C8: every entry into Aiming is from Wandering, in a tick where the Moodel
   is Rage and its cooldown has just elapsed, at another Moodel that is not
   Rage, with the aim timer armed and the hit counter at 0; no Moodel is ever
   Aiming at itself. *)
C8_EntryIntoAiming ==
    \A a \in live :
        /\ EnteredAiming(a) =>
              /\ observed[a].before.kind = "Wandering"
              /\ observed[a].mood = "Rage"
              /\ observed[a].cooled
              /\ wander_state[a].action.target \in observed[a].eligible
              /\ Armed(wander_state[a].state_timer, RageChargeAimDuration)
              /\ wander_state[a].charge_hit_count = 0
        /\ wander_state[a].action.kind = "Aiming" =>
              wander_state[a].action.target # a

C8_Witness ==
    \E a \in live :
        /\ EnteredAiming(a)
        /\ \E u \in live \ {a} : u \notin observed[a].eligible

----------------------------------------------------------------------------
(* Properties of the mood rules *)

(* C9 as stated: after a mood change applied by the collision rule, the
   collision rule applies no second change to the same Moodel within the
   debounce window of 1.5 s. *)
C9_NoSecondChangeInsideWindow ==
    \A a \in live : observed[a].converted => observed[a].gap >= StabilityThreshold

(* C9: the collision rule applies a mood change only in a tick where
   mood_stability is below the 1.5 s threshold, so a second change by the
   collision rule can only come inside the window that follows a change, and
   none comes once the mood has been stable for 1.5 s. *)
C9_ChangeOnlyInsideWindow ==
    \A a \in live : observed[a].converted => observed[a].seen < StabilityThreshold

C9_Witness ==
    \E a \in live :
        /\ observed[a].converted
        /\ observed[a].gap < StabilityThreshold
        /\ mood_entity[a].mood_stability = 0

(* update_mood_natural_progression runs *)
CyclicRuleStep == "mood_natural" \notin ran /\ "mood_natural" \in ran'

(* C10: whenever the cyclic timer of a Moodel fires, its mood becomes
   next_in_cycle of its current mood in that tick, whatever mood_stability
   is, and mood_stability is reset to 0. *)
C10_CyclicProgression ==
    [][CyclicRuleStep =>
          \A a \in live :
              JustFinished(mood_entity'[a].next_cycle_progression) =>
                  /\ mood'[a] = next_in_cycle(mood[a])
                  /\ mood_entity'[a].mood_stability = 0]_vars

C10_Witness ==
    \E a \in live :
        /\ "mood_natural" \in ran
        /\ observed[a].cycled
        /\ observed[a].held >= StabilityGate
        /\ observed[a].was = "Rage"
        /\ mood_entity[a].mood_stability = 0

----------------------------------------------------------------------------
(* Claims about the cyclic successor (SpecCycle) *)

(* the moods next_in_cycle gave from start, after 1, 2, ... progressions *)
StartOf(a) == progressed[a][1]

AfterProgressions(a, n) == progressed[a][n + 1]

Progressions(a) == Len(progressed[a]) - 1

(* C11, as stated: from every starting mood other than Neutral, five        *)
(* progressions of next_in_cycle return the starting mood.                   *)
C11_ReturnsAfterFive ==
    \A a \in CycleAgents :
       (StartOf(a) # "Neutral" /\ Progressions(a) >= 5)
          => AfterProgressions(a, 5) = StartOf(a)

(* C11, amended: from every starting mood other than Neutral, the starting  *)
(* mood returns after exactly 4 progressions of next_in_cycle (after n       *)
(* progressions the mood is the starting mood if and only if n is a multiple *)
(* of 4), and no progression gives Neutral.                                  *)
C11_ReturnsAfterFour ==
    \A a \in CycleAgents :
       \A n \in 1..Progressions(a) :
          /\ AfterProgressions(a, n) # "Neutral"
          /\ StartOf(a) # "Neutral"
                => (AfterProgressions(a, n) = StartOf(a) <=> n % 4 = 0)

C11_Witness ==
    \E a \in CycleAgents :
       /\ StartOf(a) = "Rage"
       /\ Progressions(a) >= 5
       /\ AfterProgressions(a, 4) = "Rage"
       /\ AfterProgressions(a, 5) = "Happy"

----------------------------------------------------------------------------
(* Claims about the two mood rules (SpecMood) *)

CollisionRuleStep == "mood_collisions" \notin ran /\ "mood_collisions" \in ran'

(* the candidate mood of a neighbour count *)
BandOf(n) ==
    CASE n = 0 -> "Sad"
      [] n \in 1..2 -> "Calm"
      [] n \in 3..5 -> "Happy"
      [] n >= 6 -> "Rage"

(* the rule applies its candidate to Moodel a in the step *)
CandidateApplies(a) ==
    /\ JustFinished(mood_entity'[a].next_mood_check)
    /\ mood_entity[a].mood_stability < StabilityThreshold
    /\ BandOf(colliding[a]) # mood[a]

(* C12: the candidate mood of the collision rule is a function of the
   neighbour count only (0 Sad, 1-2 Calm, 3-5 Happy, 6 or more Rage); in a
   tick the rule makes the candidate the mood if and only if the 0.5 s check
   timer just fired, mood_stability is below 1.5 s and the candidate differs
   from the current mood, and it then resets mood_stability to 0; otherwise
   it leaves the mood and mood_stability as they are. *)
C12_CollisionRule ==
    [][CollisionRuleStep =>
          /\ \A n \in 0..MaxNeighbors : collision_mood(n) = BandOf(n)
          /\ \A a \in live :
                IF CandidateApplies(a)
                THEN /\ mood'[a] = BandOf(colliding[a])
                     /\ mood_entity'[a].mood_stability = 0
                ELSE /\ mood'[a] = mood[a]
                     /\ mood_entity'[a].mood_stability
                           = mood_entity[a].mood_stability]_vars

C12_Witness ==
    \E a \in live :
       /\ "mood_collisions" \in ran
       /\ "mood_natural" \notin ran
       /\ observed[a].converted
       /\ colliding[a] = 6
       /\ mood[a] = "Rage"
       /\ mood_entity[a].mood_stability = 0

(* C13: in every tick the collision rule is evaluated before the cyclic
   rule, so when both have fired for a Moodel in a tick, its mood at the end
   of the tick is next_in_cycle of the collision rule's result. *)
C13_CyclicOverridesCollision ==
    \A a \in live :
       (MoodSystems \subseteq ran /\ observed[a].converted /\ observed[a].cycled)
          => mood[a] = next_in_cycle(BandOf(colliding[a]))

----------------------------------------------------------------------------
(* Claims about the goal zones (SpecZone) *)

(* the zone systems up to the recompute have run in this tick *)
Recomputed == "zone_state" \in ran /\ noted.counted

(* the kinds of the notifications of this tick *)
KindsNoted == {noted.notes[i].kind : i \in 1..Len(noted.notes)}

(* C14: after every tick's recompute, for every goal zone, is_satisfied is
   true if and only if current_count >= required_count, whether the tick
   carried an enter event, an exit event, both, or no event. *)
C14_SatisfiedIffCountReached ==
    Recomputed =>
       \A z \in zones :
          goal_zone[z].is_satisfied
             <=> goal_zone[z].current_count >= goal_zone[z].required_count

C14_Witness ==
    /\ Recomputed
    /\ KindsNoted = {"enter", "exit"}
    /\ \E z \in zones :
          /\ goal_zone[z].is_satisfied
          /\ goal_zone[z].current_count = goal_zone[z].required_count
    /\ \E z \in zones : ~goal_zone[z].is_satisfied

(* the Moodels of the occupancy set of zone z whose mood, as the recompute
   read it, is the target mood *)
MatchingAtRecompute(z) ==
    {m \in goal_zone[z].entities_inside :
        m \in live /\ noted.moods[m] = goal_zone[z].target_mood}

(* the Moodels with an enter and no exit notification for zone z in this tick *)
EnteredOnly(z) ==
    {a \in live :
        /\ \E i \in 1..Len(noted.notes) :
              noted.notes[i].kind = "enter" /\ Subject(noted.notes[i]) = <<a, z>>
        /\ \A i \in 1..Len(noted.notes) :
              Subject(noted.notes[i]) = <<a, z>> => noted.notes[i].kind = "enter"}

(* C15: after every tick's recompute, a zone's current_count is the number
   of ids of its occupancy set, as the tick's event processing left it, whose
   live mood is the zone's target mood; a Moodel of the target mood that
   entered in the tick is counted by that tick's recompute. *)
C15_CountMatchesOccupants ==
    Recomputed =>
       \A z \in zones :
          /\ goal_zone[z].current_count = Cardinality(MatchingAtRecompute(z))
          /\ \A a \in EnteredOnly(z) :
                noted.moods[a] = goal_zone[z].target_mood
                   => a \in MatchingAtRecompute(z)

(* a resident Moodel's mood has changed and the count has followed in a tick
   without notifications; and a Moodel is counted in the tick it enters *)
C15_Witness ==
    /\ Recomputed
    /\ noted.notes = <<>>
    /\ \E z \in zones :
          /\ goal_zone[z].entities_inside # {}
          /\ goal_zone[z].entities_inside = noted.before[z].entities_inside
          /\ goal_zone[z].current_count # noted.before[z].current_count

(* C16: the level-complete latch, once set, stays set: the level-complete
   signal has been given at most once, and once it has been given the latch
   is set in every later state, whatever the zones become. *)
C16_LatchStaysSet ==
    /\ noted.complete <= 1
    /\ noted.complete = 1 => level_won

(* the level was completed in an earlier tick and a zone is unsatisfied now *)
C16_Witness ==
    /\ level_won
    /\ noted.was_won
    /\ "win_condition" \in ran
    /\ \E z \in zones : ~goal_zone[z].is_satisfied /\ noted.before[z].is_satisfied

(* the latch was unset when the tick began and is set now *)
LatchedNow == ~noted.was_won /\ level_won

(* the zone set is non-empty and every zone is satisfied *)
AllSatisfied == zones # {} /\ \A z \in zones : goal_zone[z].is_satisfied

(* C17: in a tick that begins with the latch unset, the latch is set if and
   only if, after the tick's recompute, the zone set is non-empty and every
   zone is satisfied; the level-complete signal is given once in the tick
   where the latch is set, and in no other tick; before the win evaluation of
   a tick the latch is as the tick found it. *)
C17_LatchSetIffAllSatisfied ==
    /\ "win_condition" \in ran =>
          /\ LatchedNow <=> (~noted.was_won /\ AllSatisfied)
          /\ noted.signalled = (IF LatchedNow THEN 1 ELSE 0)
    /\ "win_condition" \notin ran =>
          /\ level_won = noted.was_won
          /\ noted.signalled = 0
    /\ zones = {} => ~level_won

C17_Witness ==
    /\ "win_condition" \in ran
    /\ LatchedNow
    /\ noted.signalled = 1
    /\ noted.complete = 1
    /\ Cardinality(zones) = 2

(* C18: the latch belongs to the level instance: it is false when a level
   instance has just been spawned, also after an earlier instance was won
   and torn down. *)
C18_LatchFalseAtSpawn == noted.fresh => ~level_won

(* the occupancy mutation of this tick is done *)
Mutated == "zone_collisions" \in ran

(* the Moodels whose most recent notification for zone z was an enter *)
LastEntered(z) == {a \in live : <<a, z>> \in noted.inside}

(* C19: after each tick's occupancy mutation, every zone's occupancy set is
   the set of Moodels whose most recent notification for the zone, in the
   order of emission, was an enter. *)
C19_OccupancyFollowsNotifications ==
    Mutated => \A z \in zones : goal_zone[z].entities_inside = LastEntered(z)

(* a notification that tells the zone what its set already says *)
Stale(n) ==
    LET a == Subject(n)[1]
        z == Subject(n)[2]
    IN  /\ Subject(n) \in ZoneAgents \X ZoneIds
        /\ IF n.kind = "enter"
           THEN a \in noted.before[z].entities_inside
           ELSE a \notin noted.before[z].entities_inside

(* every notification of this tick is stale, and there is one *)
OnlyStaleNoted ==
    /\ noted.notes # <<>>
    /\ \A i \in 1..Len(noted.notes) : Stale(noted.notes[i])

(* C20: stale notifications are no-ops: after the occupancy mutation of a
   tick whose notifications are all enters of Moodels already in the set or
   exits of Moodels not in it, every zone is as it was and no correct-entry
   sound or pop animation has been signalled. *)
C20_StaleNotificationsAreNoOps ==
    (Mutated /\ "zone_state" \notin ran /\ OnlyStaleNoted)
       => /\ goal_zone = noted.before
          /\ noted.entry = 0

(***************************************************************************)
(* C21: ids that are no live Moodel or zone                                *)
(***************************************************************************)

(* a notification one of whose ids is no live Moodel or no zone *)
DeadId(n) == Subject(n)[1] \notin live \/ Subject(n)[2] \notin zones

(* every notification of this tick has such an id, and there is one *)
OnlyDeadIdsNoted ==
    /\ noted.notes # <<>>
    /\ \A i \in 1..Len(noted.notes) : DeadId(noted.notes[i])

(* C21: a collision notification with an id that is no live Moodel or zone *)
(* is ignored: after the occupancy mutation of a tick whose notifications  *)
(* all carry such an id, every zone is as it was and nothing has been      *)
(* signalled; and the recompute never counts an id of an occupancy set     *)
(* whose Moodel no longer exists: a zone without a live resident has       *)
(* current_count = 0.                                                      *)
C21_DeadIdsIgnored ==
    /\ (Mutated /\ "zone_state" \notin ran /\ OnlyDeadIdsNoted)
          => /\ goal_zone = noted.before
             /\ noted.entry = 0
             /\ sound_events = <<>>
    /\ Recomputed =>
          \A z \in zones :
             goal_zone[z].entities_inside \cap live = {}
                => goal_zone[z].current_count = 0

(* a despawned Moodel of the target mood is still in a zone's set, its     *)
(* exit notification has been ignored and the recompute has counted 0      *)
C21_Witness ==
    /\ Recomputed
    /\ OnlyDeadIdsNoted
    /\ \E z \in zones :
          /\ goal_zone[z].entities_inside \cap live = {}
          /\ \E m \in goal_zone[z].entities_inside :
                noted.moods[m] = goal_zone[z].target_mood
          /\ goal_zone[z].current_count = 0

(***************************************************************************)
(* C25: mood-changed notifications                                         *)
(***************************************************************************)

(* the mood of the Moodel was changed in the current frame by one of the   *)
(* two mood rules                                                          *)
MoodChangeApplied(a) == observed[a].converted \/ observed[a].cycled

MoodChangedEvents ==
    {i \in DOMAIN sound_events : sound_events[i].kind = "MoodChanged"}

(* C25: every mood change that the collision rule or the cyclic rule       *)
(* applies to a Moodel has, in the same frame, a MoodChanged event that    *)
(* carries the new mood; and there are no MoodChanged events in a frame    *)
(* without a mood change.                                                  *)
C25_MoodChangeNotified ==
    /\ \A a \in live :
          MoodChangeApplied(a) =>
              \E i \in MoodChangedEvents : sound_events[i].to = mood[a]
    /\ (\A a \in live : ~MoodChangeApplied(a)) => MoodChangedEvents = {}

(***************************************************************************)
(* C22: the wander of a Sad Moodel                                         *)
(***************************************************************************)

(* update_ai_behavior has evaluated the Moodel as a Sad Wandering Moodel   *)
(* in the current frame                                                    *)
SadWanderer(a) ==
    /\ Evaluated
    /\ a \in live
    /\ observed[a].mood = "Sad"
    /\ observed[a].before.kind = "Wandering"

(* C22: a Sad Wandering Moodel alternates between moving and freezing: its *)
(* wander intent is zero exactly on the frame where its pause timer        *)
(* finishes and not zero otherwise, and after every evaluation the pause   *)
(* timer is running (it was running, or it finished and was restarted with *)
(* a new duration of 3 to 6 s), so that a moving phase follows a freeze.   *)
C22_SadWanderAlternates ==
    \A a \in Agents :
        SadWanderer(a) =>
            /\ (observed[a].base = Zero) <=> observed[a].fired
            /\ ~Finished(wander_state[a].state_timer)
            /\ observed[a].fired =>
                  /\ wander_state[a].state_timer.elapsed = 0
                  /\ wander_state[a].state_timer.duration \in SadPauseDurations

(***************************************************************************)
(* C23: the order of the phases in a frame                                 *)
(***************************************************************************)

(* every installed system has run in the current frame *)
FrameDone == ran = installed /\ now > 0

(* C23: in every frame the mood rules run before the action state machine, *)
(* which runs before flocking, which runs before boundary avoidance: the   *)
(* mood that update_ai_behavior saw for a Moodel is the mood the frame's   *)
(* mood rules left it with, and flocking and boundary avoidance never run  *)
(* before the action state machine of their frame.                         *)
C23_PhasesInDeclaredOrder ==
    /\ "ai_behavior" \in ran => MoodSystems \subseteq ran
    /\ "ai_magnetism" \in ran => "ai_behavior" \in ran
    /\ "ai_boundary" \in ran => "ai_magnetism" \in ran
    /\ FrameDone => \A a \in live : observed[a].mood = mood[a]

(***************************************************************************)
(* C24: a malformed AiConfig                                               *)
(***************************************************************************)

(* Range::is_empty of the cooldown range: !(start < end) *)
Malformed(config) ==
    ~(config.rage_charge_cooldown[1] < config.rage_charge_cooldown[2])

(* C24: a malformed AiConfig (cooldown range with min > max, or empty) is  *)
(* rejected before the simulation starts, so that no tick of a running     *)
(* simulation fails because of it: update_ai_behavior never panics under   *)
(* it (the cooldown sampled at Charging -> Wandering always exists).       *)
C24_NoTickFailsOnMalformedConfig == Malformed(ai_config) => ~panicked

(***************************************************************************)
(* C26 - C29: flocking and boundary avoidance                              *)
(***************************************************************************)

(* update_ai_magnetism has run in the current frame, boundary avoidance    *)
(* has not                                                                 *)
Flocked == now > 0 /\ "ai_magnetism" \in ran /\ "ai_boundary" \notin ran

(* the orders in which the rows of the live Moodels can be iterated *)
RowOrders ==
    {p \in [1..Len(order) -> live] : \A i, j \in 1..Len(order) : p[i] = p[j] => i = j}

(* the Moodel was Wandering when the flocking phase looked at it *)
WanderingNow(a) == wander_state[a].action.kind = "Wandering"

(* C26: the flocking force added to a Moodel's intent depends only on the  *)
(* positions and moods before the phase and not on the order of iteration: *)
(* after the phase, the intent of every Moodel is its intent before the    *)
(* phase plus the force computed over the rows in any order whatever.      *)
C26_IterationOrderIrrelevant ==
    Flocked =>
       \A a \in live : \A p \in RowOrders :
          intent[a] = VAdd(observed[a].base,
                           IF WanderingNow(a) THEN magnetic_force_over(a, p)
                           ELSE Zero)

(* a Wandering Moodel with two different pulls, from different places, has *)
(* received a force                                                        *)
C26_Witness ==
    /\ Flocked
    /\ \E a \in live :
          /\ WanderingNow(a)
          /\ intent[a] # observed[a].base
          /\ \E o1, o2 \in live \ {a} :
                /\ o1 # o2
                /\ pos[o1] # pos[o2]
                /\ get_attraction_factor(mood[a], mood[o1]) > 0
                /\ get_attraction_factor(mood[a], mood[o2]) > 0
                /\ get_attraction_factor(mood[a], mood[o1])
                      # get_attraction_factor(mood[a], mood[o2])
                /\ \A o \in {o1, o2} :
                      /\ LengthSquared(VSub(pos[a], pos[o])) > 0
                      /\ LengthSquared(VSub(pos[a], pos[o]))
                            < VisionRadius * VisionRadius

(* update_ai_boundary_avoidance has run in the current frame *)
Bounded == now > 0 /\ "ai_boundary" \in ran

(* the push on one axis: towards the inside when nearer than the margin to *)
(* an edge, nothing otherwise                                              *)
EdgePush(c, lo, hi) ==
    IF c - lo < AvoidanceMargin THEN AvoidanceStrength
    ELSE IF hi - c < AvoidanceMargin THEN 0 - AvoidanceStrength
    ELSE 0

(* what boundary avoidance has added to the intent of the Moodel *)
AvoidanceAdded(a) ==
    VSub(intent[a],
         VAdd(observed[a].base,
              IF WanderingNow(a) THEN magnetic_force(a) ELSE Zero))

(* C27: boundary avoidance adds to a Wandering Moodel's intent, on each    *)
(* axis by itself, +avoidance_strength when the position is less than      *)
(* avoidance_margin from the minimum edge, -avoidance_strength when it is  *)
(* less than avoidance_margin from the maximum edge and nothing when it is *)
(* at least avoidance_margin from both; the force points inward, and near  *)
(* a corner both axes get the full strength.                               *)
C27_BoundaryAvoidancePerAxis ==
    Bounded =>
       \A a \in live :
          WanderingNow(a) =>
             LET fx == EdgePush(pos[a][1], 0 - PlayAreaWidth \div 2, PlayAreaWidth \div 2)
                 fy == EdgePush(pos[a][2], 0 - PlayAreaHeight \div 2, PlayAreaHeight \div 2)
             IN  /\ AvoidanceAdded(a) = <<fx * Scale, fy * Scale>>
                 /\ fx * pos[a][1] <= 0
                 /\ fy * pos[a][2] <= 0

(* a Wandering Moodel near a corner has been pushed on both axes, and one  *)
(* that stands at the margin has not been pushed                           *)
C27_Witness ==
    /\ Bounded
    /\ \E a, b \in live :
          /\ WanderingNow(a) /\ WanderingNow(b)
          /\ pos[a] = <<350, 250>>
          /\ AvoidanceAdded(a) = <<0 - AvoidanceStrength * Scale,
                                   0 - AvoidanceStrength * Scale>>
          /\ pos[b] = <<-300, 0>>
          /\ AvoidanceAdded(b) = Zero

RECURSIVE VSum(_, _)
VSum(S, f) ==
    IF S = {} THEN Zero
    ELSE LET x == CHOOSE y \in S : TRUE
         IN VAdd(f[x], VSum(S \ {x}, f))

(* the other Moodels nearer than vision_radius *)
InSight(a) ==
    {o \in live \ {a} :
        LengthSquared(VSub(pos[a], pos[o])) < VisionRadius * VisionRadius}

(* the other Moodels nearer than vision_radius and separation_distance *)
TooClose(a) ==
    {o \in InSight(a) :
        LengthSquared(VSub(pos[a], pos[o])) < SeparationDistance * SeparationDistance}

(* the sum of the unit vectors away from the close neighbours, each        *)
(* divided by distance + 0.1; in millionths                                *)
SeparationSum(a) ==
    VSum(TooClose(a),
         [o \in TooClose(a) |->
             VDiv(VMul(NormalizeOrZero(VSub(pos[a], pos[o])), 100),
                  DistanceCenti(pos[a], pos[o]) + 10)])

(* the neighbours in sight with a non-zero and with a positive factor *)
Drawn(a) == {o \in InSight(a) : get_attraction_factor(mood[a], mood[o]) # 0}

Friendly(a) == {o \in InSight(a) : get_attraction_factor(mood[a], mood[o]) > 0}

(* the sum of (neighbor_pos - self_pos) * factor, divided by the number of *)
(* friendly neighbours when there is one; in tenths of a unit              *)
CohesionSum(a) ==
    LET sum == VSum(Drawn(a),
                    [o \in Drawn(a) |->
                        VMul(VSub(pos[o], pos[a]),
                             get_attraction_factor(mood[a], mood[o]))])
    IN  IF Friendly(a) # {} THEN VDiv(sum, Cardinality(Friendly(a))) ELSE sum

(* what flocking has added to the intent of the Moodel *)
FlockingAdded(a) == VSub(intent[a], observed[a].base)

(* C28: the flocking force of a Wandering Moodel is cohesion *             *)
(* cohesion_strength + separation * separation_strength, where separation  *)
(* is the sum over the other Moodels nearer than both vision_radius and    *)
(* separation_distance of the unit vector away from them divided by        *)
(* distance + 0.1, not averaged, and cohesion is the sum of (neighbor_pos  *)
(* - self_pos) * factor over the other Moodels within vision_radius with a *)
(* non-zero factor, divided by the number of those with a positive factor  *)
(* when there is one; Moodels at or beyond vision_radius and the Moodel    *)
(* itself add nothing.                                                     *)
C28_FlockingForce ==
    Flocked =>
       \A a \in live :
          WanderingNow(a) =>
             FlockingAdded(a) =
                VAdd(VMul(CohesionSum(a), CohesionStrengthPct * 1000),
                     VMul(VDiv(SeparationSum(a), 100), SeparationStrengthPct))

(* a Wandering Moodel with a friendly neighbour too close, a neighbour in  *)
(* sight beyond the separation distance and nobody else has been pulled    *)
(* and pushed                                                              *)
C28_Witness ==
    /\ Flocked
    /\ \E a \in live :
          /\ WanderingNow(a)
          /\ Cardinality(TooClose(a)) = 1
          /\ Cardinality(InSight(a)) = 2
          /\ Friendly(a) # {}
          /\ Drawn(a) = InSight(a)
          /\ SeparationSum(a) # Zero
          /\ FlockingAdded(a) # Zero

(* C29: the attraction factor is defined for every ordered pair of moods   *)
(* and is asymmetric: Sad toward Happy is -0.8 and Happy toward Sad is 0;  *)
(* Rage toward any mood but Rage and Sad is 0.2, Neutral toward any mood   *)
(* is -0.1, and every other pair that the table does not list is 0.        *)
C29_AttractionFactor ==
    \A a, o \in live :
       LET my == mood[a]
           other == mood[o]
           factor == get_attraction_factor(my, other)
       IN  /\ factor \in -10..10
           /\ (my = "Sad" /\ other = "Happy") => factor = -8
           /\ (my = "Happy" /\ other = "Sad") => factor = 0
           /\ (my = "Rage" /\ other \notin {"Rage", "Sad"}) => factor = 2
           /\ my = "Neutral" => factor = -1
           /\ (my = "Happy" /\ other \notin {"Happy", "Calm"}) => factor = 0
           /\ (my = "Sad" /\ other \notin {"Sad", "Happy", "Rage"}) => factor = 0
           /\ (my = "Calm" /\ other # "Calm") => factor = 0

(* a Sad and a Happy Moodel in sight of each other and of nobody else,     *)
(* beyond the separation distance: the Sad one has been pushed away, the   *)
(* Happy one has not been moved                                            *)
C29_Witness ==
    /\ Flocked
    /\ \E a, o \in live :
          /\ mood[a] = "Sad" /\ mood[o] = "Happy"
          /\ WanderingNow(a) /\ WanderingNow(o)
          /\ InSight(a) = {o} /\ InSight(o) = {a}
          /\ TooClose(a) = {}
          /\ FlockingAdded(a) = VMul(VSub(pos[o], pos[a]), -8 * CohesionStrengthPct * 1000)
          /\ FlockingAdded(o) = Zero

(***************************************************************************)
(* C30: target selection                                                   *)
(***************************************************************************)

(* the row of a live Moodel in iteration order *)
RowOf(u) == CHOOSE i \in 1..Len(order) : order[i] = u

(* the squared straight-line distance between two Moodels *)
Apart(a, u) == LengthSquared(VSub(pos[u], pos[a]))

(* C30: target selection picks, among the other live Moodels whose mood is *)
(* not Rage, one at minimum straight-line distance: no candidate is        *)
(* strictly nearer than the target, however small the difference, and      *)
(* among candidates at equal distance the first in iteration order is      *)
(* taken.                                                                  *)
C30_StrictlyNearestSelected ==
    \A a \in live : Triggered(a) =>
        LET t == wander_state[a].action.target
        IN  /\ t \in observed[a].eligible
            /\ \A u \in observed[a].eligible :
                  /\ Apart(a, t) <= Apart(a, u)
                  /\ Apart(a, u) = Apart(a, t) => RowOf(t) <= RowOf(u)

(***************************************************************************)
(* C31: the effects of entering a zone                                     *)
(***************************************************************************)

(* the enter notifications of this tick between a live Moodel and a zone   *)
(* whose target mood was the Moodel's mood when they were processed        *)
CorrectEntries ==
    {i \in 1..Len(noted.notes) :
        /\ noted.notes[i].kind = "enter"
        /\ ~DeadId(noted.notes[i])
        /\ noted.moods[Subject(noted.notes[i])[1]]
              = goal_zone[Subject(noted.notes[i])[2]].target_mood}

(* C31: the correct-entry sound and the pop animation are signalled for an *)
(* enter notification if and only if the Moodel's mood at that moment is   *)
(* the zone's target mood: after the occupancy mutation of a tick there is *)
(* one effect for each such notification and no other; exit notifications  *)
(* and a resident's change of mood to the target mood signal nothing.      *)
C31_EntryEffectIffMoodMatches ==
    /\ (Mutated /\ "zone_state" \notin ran) =>
          /\ noted.entry = Cardinality(CorrectEntries)
          /\ Len(sound_events) = Cardinality(CorrectEntries)
    /\ \A i \in DOMAIN sound_events : sound_events[i] = CorrectZoneEntry
    /\ ~Mutated => sound_events = <<>>

(* one Moodel has entered a zone of its mood and a zone of another mood in *)
(* the same tick: one effect                                               *)
C31_Witness ==
    /\ Mutated /\ "zone_state" \notin ran
    /\ Len(noted.notes) = 2
    /\ KindsNoted = {"enter"}
    /\ \A i \in 1..2 : ~DeadId(noted.notes[i])
    /\ noted.entry = 1

(***************************************************************************)
(* C32: zone event processing never fails                                  *)
(***************************************************************************)

(* the classification of the pair of a notification of this tick *)
Classified(i) ==
    get_moodel_and_zone(noted.notes[i].pair[1], noted.notes[i].pair[2])

(* C32: zone event processing never fails: for the pair of every collision *)
(* notification (two Moodels, a Moodel and a wall, a Moodel and a zone in  *)
(* either order, two zones, ids that are gone) the helper returns a live   *)
(* Moodel together with a zone of the level, or neither, so that the       *)
(* unwrap of the zone after the test of the Moodel never panics.           *)
C32_ZoneProcessingNeverFails ==
    /\ \A i \in 1..Len(noted.notes) :
          /\ Classified(i).moodel_entity = NoEntity
                <=> Classified(i).zone_entity = NoEntity
          /\ Classified(i).moodel_entity # NoEntity =>
                /\ Classified(i).moodel_entity \in live
                /\ Classified(i).zone_entity \in zones
    /\ ~panicked

(* the handler has read a notification with a Moodel and no zone *)
C32_Witness ==
    /\ Mutated
    /\ ~panicked
    /\ \E i \in 1..Len(noted.notes) :
          /\ noted.notes[i].pair[1] \in live
          /\ Classified(i).moodel_entity = NoEntity


(* a level with zones, none of which asks for a Moodel *)
ZeroCountLevel == zones # {} /\ \A z \in zones : goal_zone[z].required_count = 0

(* C40: a zone with required_count = 0 is satisfied after every recompute,
   whatever its occupancy; a level with zones that all have required_count = 0
   therefore sets the latch and gives the level-complete signal in the first
   tick of its zone evaluation, before any Moodel has entered a zone. *)
C40_ZeroCountLevelCompletes ==
    /\ Recomputed =>
          \A z \in zones : goal_zone[z].required_count = 0 => goal_zone[z].is_satisfied
    /\ (ZeroCountLevel /\ noted.counted /\ "win_condition" \in ran) =>
          /\ level_won
          /\ noted.surfaced

(* the same for the ticks of the first level instance of the run *)
ZeroCountFirstInstanceCompletes ==
    /\ Recomputed =>
          \A z \in zones : goal_zone[z].required_count = 0 => goal_zone[z].is_satisfied
    /\ (ZeroCountLevel /\ noted.counted /\ "win_condition" \in ran /\ noted.instance = 1) =>
          /\ level_won
          /\ noted.surfaced
          /\ noted.signalled = (IF noted.was_won THEN 0 ELSE 1)


----------------------------------------------------------------------------
(* Further claims about the moods (SpecMood) *)

(* the moods the collision rule can give *)
CollisionCandidates == {collision_mood(c) : c \in 0..MaxNeighbors}

(* C33: Neutral is never re-entered: the candidates of the collision rule are
   only Sad, Calm, Happy and Rage, the successor of the cyclic rule is never
   Neutral, and a Moodel whose mood was not Neutral in some state is not
   Neutral in any later state. *)
C33_NeutralNeverReentered ==
    /\ CollisionCandidates = {"Sad", "Calm", "Happy", "Rage"}
    /\ \A m \in Moods : next_in_cycle(m) # "Neutral"
    /\ \A a \in live : observed[a].left => mood[a] # "Neutral"

(* a Moodel spawned Neutral has left Neutral, and both rules have changed its
   mood since *)
C33_Witness ==
    \E a \in live :
       /\ active_level.moodels[a] = "Neutral"
       /\ observed[a].left
       /\ observed[a].cycled
       /\ observed[a].converted
       /\ mood_entity[a].mood_stability = 0
       /\ now > CycleProgressionPeriod


(* the mood of the Moodel has been stable for the threshold or longer *)
StableMood(a) == mood_entity[a].mood_stability >= StabilityThreshold

(* the cyclic rule fires for the Moodel in this step *)
CyclicRuleFires(a) ==
    /\ CyclicRuleStep
    /\ JustFinished(mood_entity'[a].next_cycle_progression)

(* C37: the collision rule changes a Moodel's mood only in a tick where
   mood_stability is below 1.5 s; a Moodel whose mood has been stable for
   1.5 s or more keeps its mood, whatever its neighbour count, and stays
   stable until the cyclic rule next fires and resets mood_stability. *)
C37_StableMoodKept ==
    [][\A a \in live :
          /\ (CollisionRuleStep /\ mood'[a] # mood[a]) => ~StableMood(a)
          /\ StableMood(a) =>
                \/ CyclicRuleFires(a) /\ mood_entity'[a].mood_stability = 0
                \/ /\ mood'[a] = mood[a]
                   /\ mood_entity'[a].mood_stability >= StabilityThreshold]_vars

(* the check timer fired for a stable Moodel whose neighbour count asks for
   another mood, and the collision rule left the mood alone *)
C37_Witness ==
    \E a \in live :
       /\ "mood_collisions" \in ran
       /\ "mood_natural" \notin ran
       /\ JustFinished(mood_entity[a].next_mood_check)
       /\ observed[a].seen >= StabilityThreshold
       /\ mood_entity[a].mood_stability >= StabilityThreshold
       /\ ~observed[a].converted
       /\ BandOf(colliding[a]) # mood[a]
       /\ colliding[a] > 0


(* the mood the Moodel was spawned with *)
SpawnMood(a) == active_level.moodels[a]

(* C39: max_speed is set once, at spawn, to the base speed times the speed
   multiplier of the spawn mood, and no mood change of either rule changes
   it: after a mood change it equals the base speed times the multiplier of
   the current mood only if the two multipliers are the same. *)
C39_MaxSpeedOfSpawnMood ==
    \A a \in live :
       /\ max_speed[a] = BaseSpeed * speed_multiplier(SpawnMood(a))
       /\ max_speed[a] = BaseSpeed * speed_multiplier(mood[a])
             <=> speed_multiplier(mood[a]) = speed_multiplier(SpawnMood(a))

(* both rules have changed the mood of a Moodel in this tick, and its
   max_speed is not that of its mood *)
C39_Witness ==
    \E a \in live :
       /\ observed[a].converted
       /\ observed[a].cycled
       /\ mood[a] # SpawnMood(a)
       /\ max_speed[a] # BaseSpeed * speed_multiplier(mood[a])
       /\ SpawnMood(a) = "Rage"


----------------------------------------------------------------------------
(* Further claims about the action state machine (Spec, SpecRearm) *)

(* C34: the ability cooldown is a one-shot timer, armed at spawn and armed
   again only when a charge completes (Charging to Wandering): a Moodel has
   entered Aiming at most once per arming, so every entry after its first
   follows a completed charge of its own; a Moodel whose cooldown finished in
   a tick where it did not start to aim (it was not Rage, or no target was
   eligible), or whose Aiming fell back to Wandering, never aims again. *)
C34_CooldownArmedOnlyByCharge ==
    \A a \in live :
       /\ wander_state[a].ability_cooldown.mode = "Once"
       /\ observed[a].aimings <= observed[a].charges + 1
       /\ observed[a].barred =>
             /\ wander_state[a].action.kind = "Wandering"
             /\ Finished(wander_state[a].ability_cooldown)

(* a Moodel aims for the second time, after its completed charge, while
   another, whose cooldown ran out when it was not Rage, is Rage now, has an
   eligible target and wanders *)
C34_Witness ==
    \E a, b \in live :
       /\ Evaluated
       /\ observed[a].aimings = 2
       /\ observed[a].charges = 1
       /\ observed[b].barred
       /\ mood[b] = "Rage"
       /\ observed[b].mood = "Rage"
       /\ observed[b].eligible # {}
       /\ wander_state[b].action.kind = "Wandering"


(* the Moodel was evaluated as a Wandering Moodel and wanders on *)
Wandered(a) ==
    /\ Evaluated
    /\ observed[a].before.kind = "Wandering"
    /\ wander_state[a].action.kind = "Wandering"

(* C35: the Sad pause runs on the one-shot state timer of the spawn delay,
   the aim and the charge, and the Sad wander branch restarts it only in the
   tick in which it finishes.  A Wandering Moodel that is Sad in a tick where
   the state timer had finished in an earlier tick gets the zero wander
   vector in that tick, and the timer stays finished, so it gets the zero
   vector in every later tick in which it is Sad and Wandering, until it
   enters Aiming. *)
C35_SadPauseOnlyAtFinish ==
    \A a \in live :
       /\ wander_state[a].state_timer.mode = "Once"
       /\ (Wandered(a) /\ observed[a].mood = "Sad" /\ observed[a].expired) =>
             /\ observed[a].base = Zero
             /\ Finished(wander_state[a].state_timer)
       /\ (Wandered(a) /\ (observed[a].expired \/ observed[a].fired)
              /\ ~Finished(wander_state[a].state_timer)) =>
             /\ observed[a].fired
             /\ ~observed[a].expired
             /\ observed[a].mood = "Sad"
       /\ (Evaluated /\ observed[a].expired
              /\ ~Finished(wander_state[a].state_timer)) =>
             wander_state[a].action.kind = "Aiming"

(* a Moodel spawned with another mood, whose spawn delay ran out before it
   became Sad, stands still seconds later *)
C35_Witness ==
    \E a \in live :
       /\ Wandered(a)
       /\ SpawnMood(a) # "Sad"
       /\ observed[a].mood = "Sad"
       /\ observed[a].expired
       /\ ~observed[a].fired
       /\ observed[a].base = Zero
       /\ now >= 20


(* the longest frame time of the run *)
LongestFrame == CHOOSE d \in frame_times : \A e \in frame_times : e <= d

(* the Moodel was evaluated in the middle of a charge sequence *)
InSequence(a) == Evaluated /\ observed[a].before.kind # "Wandering"

(* C36 as stated: a Moodel that has entered Aiming is Wandering again when at
   most the aim duration plus the charge duration of tick time has
   accumulated since. *)
C36_BackWithinAimPlusCharge ==
    \A a \in live :
       InSequence(a) => observed[a].spent <= RageChargeAimDuration + RageChargeDuration

(* C36: every charge sequence terminates, whatever becomes of the Moodel's
   mood or of its target: the aim ends in the first evaluation in which the
   tick time accumulated since the entry has reached the aim duration, the
   charge in the first evaluation in which the time accumulated since its
   start has reached the charge duration, so the Moodel is Wandering again
   before the aim duration plus the charge duration plus two frame times
   have accumulated, and after a charge not before the two durations have;
   the mood is consulted only in the Wandering state. *)
C36_SequenceTerminates ==
    \A a \in live :
       /\ InSequence(a) =>
             observed[a].spent
                < RageChargeAimDuration + RageChargeDuration + 2 * LongestFrame
       /\ (InSequence(a) /\ wander_state[a].action.kind = "Aiming") =>
             observed[a].spent < RageChargeAimDuration
       /\ (InSequence(a) /\ observed[a].before.kind = "Aiming"
              /\ observed[a].spent >= RageChargeAimDuration) =>
             wander_state[a].action.kind = IF observed[a].before.target \in live
                                            THEN "Charging" ELSE "Wandering"
       /\ (InSequence(a) /\ observed[a].before.kind = "Charging") =>
             /\ wander_state[a].action.kind = "Wandering" <=> observed[a].fired
             /\ wander_state[a].action.kind = "Wandering" =>
                   observed[a].spent >= RageChargeAimDuration + RageChargeDuration

(* a Moodel that ceased to be Rage in the middle of its sequence, after the
   aim, charges on *)
C36_Witness ==
    \E a \in live :
       /\ InSequence(a)
       /\ observed[a].before.kind = "Charging"
       /\ wander_state[a].action.kind = "Charging"
       /\ observed[a].mood # "Rage"
       /\ observed[a].spent > RageChargeAimDuration


(* the steps of the flocking and of the boundary phase *)
FlockingPhaseStep == "ai_magnetism" \notin ran /\ "ai_magnetism" \in ran'

BoundaryPhaseStep == "ai_boundary" \notin ran /\ "ai_boundary" \in ran'

(* the charge timer of the Moodel elapsed in this tick's evaluation *)
ChargeEnded(a) ==
    /\ Evaluated
    /\ observed[a].before.kind = "Charging"
    /\ wander_state[a].action.kind = "Wandering"

(* the Aiming of the Moodel fell back to Wandering in this tick's evaluation *)
FellBack(a) ==
    /\ Evaluated
    /\ observed[a].before.kind = "Aiming"
    /\ wander_state[a].action.kind = "Wandering"

(* the vector of the Charging arm *)
ChargeVector(a) == NormalizeOrZero(VSub(observed[a].before.target_pos, pos[a]))

(* the two later phases add their forces to the intent they find *)
ForcesAddedOnTop(a) ==
    /\ FlockingPhaseStep => intent'[a] = VAdd(intent[a], magnetic_force(a))
    /\ BoundaryPhaseStep => intent'[a] = VAdd(intent[a], avoidance_force(pos[a]))

(* C38 as stated: in the tick in which the charge timer elapses the flocking
   phase finds the unit charge vector as intent and the action Wandering, and
   the flocking and boundary forces are added on top of it; in the tick of
   the fallback from Aiming they are added on top of the zero vector. *)
C38_ForcesOnUnitChargeVector ==
    [][\A a \in live :
          /\ ChargeEnded(a) =>
                /\ FlockingPhaseStep => intent[a] = ChargeVector(a) /\ IsUnit(intent[a])
                /\ ForcesAddedOnTop(a)
          /\ FellBack(a) =>
                /\ FlockingPhaseStep => intent[a] = Zero
                /\ ForcesAddedOnTop(a)]_vars

(* C38: in the tick in which the charge timer elapses the flocking phase
   finds the charge vector as intent (the unit vector toward the frozen
   target position, or the zero vector when the Moodel stands on that
   position) and the action Wandering, and the flocking and boundary forces
   are added on top of it; in the tick of the fallback from Aiming they are
   added on top of the zero vector. *)
C38_ForcesOnChargeVector ==
    [][\A a \in live :
          /\ ChargeEnded(a) =>
                /\ FlockingPhaseStep =>
                      /\ intent[a] = ChargeVector(a)
                      /\ IF observed[a].before.target_pos = pos[a]
                         THEN intent[a] = Zero ELSE IsUnit(intent[a])
                /\ ForcesAddedOnTop(a)
          /\ FellBack(a) =>
                /\ FlockingPhaseStep => intent[a] = Zero
                /\ ForcesAddedOnTop(a)]_vars

(* the charge of a Moodel has ended in this tick and the two phases have
   changed the unit vector it wrote *)
C38_Witness ==
    \E a \in live :
       /\ Settled
       /\ ChargeEnded(a)
       /\ IsUnit(observed[a].base)
       /\ intent[a] # observed[a].base
       /\ intent[a] = VAdd(VAdd(observed[a].base, magnetic_force(a)),
                           avoidance_force(pos[a]))

====
